---- MODULE Spec2Model ----
(***************************************************************************)
(* A model of term_app_pack: the CursorList (utils.SequencePointer), the   *)
(* input recorder (termutils.TermInReader) and the terminal application    *)
(* (termutils.XTermApplication).                                           *)
(*                                                                         *)
(* The module holds several specifications over one set of variables:      *)
(*   SpecCursor  SequencePointer.next / previous / pointer setter          *)
(*   SpecTerm    XTermApplication.open / close over every configuration    *)
(*   Spec        the recorders, their read loops and the application scope *)
(* Each specification moves its own group of variables and leaves the      *)
(* others at their initial value.                                          *)
(***************************************************************************)
EXTENDS Integers, Sequences, FiniteSets, TLC

VARIABLES
  sp_len,       \* SequencePointer: len(self)
  sp_cycle,     \* SequencePointer.__cycle
  sp_pointer,   \* SequencePointer._pointer
  sp_last       \* history: the last operation, its argument and the pointer before it

cursorVars == <<sp_len, sp_cycle, sp_pointer, sp_last>>

VARIABLES
  stdin,            \* the environment: what file descriptor 0 / sys.stdin is
  tty,              \* the termios settings of the terminal (process-wide)
  normal,           \* TermInReader.normal of every live recorder (cooked)
  old_settings,     \* TermInReader._old_settings
  bindings,         \* TermInReader.bindings: key -> list of actions
  func,             \* TermInReader.__func: the active hook
  stack,            \* the read loops in progress, innermost last
  config,           \* XTermApplication._config
  safe_exceptions,  \* XTermApplication._safe_exceptions
  in_app,           \* XTermApplication._in_app
  term,             \* the DEC modes of the terminal behind _target
  sink,             \* what write()/flush() forwarded to _target
  scope,            \* TRUE inside the body of `with app:`
  pending,          \* the top-level call in progress
  outcome,          \* history: the exception the last top-level call raised
  start_log,        \* history: the last start() call
  done_burst,       \* history: the last _handle() call
  exit_log,         \* history: the last __exit__() call
  io_log,           \* history: what the last write()/flush() call did
  input_log,        \* history: the last input() call and the recorder before it
  life              \* history: the open()/close() calls so far, in short

recVars == <<stdin, tty, normal, old_settings, bindings, func, stack>>
appVars == <<config, safe_exceptions, in_app, term, sink, scope>>
histVars == <<pending, outcome, start_log, done_burst, exit_log, io_log, input_log,
              life>>

VARIABLES
  lb,               \* a LineBuffer: _line, _pos, _history_pos, _local_history, _prompt
  lb_last,          \* history: the last key() call, what was shown before it, its result
  lb_trace          \* history: the keys so far, where the specification logs them

lineVars == <<lb, lb_last, lb_trace>>

VARIABLES
  mn                \* a BaseMenu: menus (the stack), every menu's items.pointer,
                    \* and history: the last simple_nav() call, the calls logged

VARIABLES
  ma,               \* a search: the candidates, a query, the query with one
                    \* character more, and what the FuzzyFinder found for each
  ff,               \* a FuzzyFinder: objects, _sublist and its pointer,
                    \* _start_index, _maxlines, _line_buffer, _current_query
  ff_last,          \* the last call on the finder and the pointer and
                    \* _start_index it found
  tr                \* a call of trim: its arguments and what it returned

finderVars == <<ff, ff_last>>
widgetVars == <<lineVars, ma, finderVars, tr>>

vars == <<cursorVars, recVars, appVars, histVars, widgetVars, mn>>

Min(a, b) == IF a < b THEN a ELSE b
Max(a, b) == IF a > b THEN a ELSE b
Abs(a) == IF a < 0 THEN -a ELSE a

(***************************************************************************)
(* utils.SequencePointer                                                   *)
(***************************************************************************)
MaxLen == 3       \* lists of length 0..MaxLen
MaxDelta == 7     \* next(n) / previous(n) with n in 0..MaxDelta
MaxAssign == 5    \* pointer = v with v in -MaxAssign..MaxAssign
MaxPointer == 8   \* the walk stops where |pointer| would exceed this

\* next(n): the new pointer
SeqNext(p, length, cyc, n) ==
  LET nxt == p + n IN
  IF nxt + 1 > length
    THEN (IF cyc THEN nxt - length ELSE length - 1)
    ELSE nxt

\* previous(n): the new pointer
SeqPrevious(p, length, cyc, n) ==
  LET prev == p - n IN
  IF prev < 0
    THEN (IF cyc THEN length + prev ELSE 0)
    ELSE prev

\* pointer setter: the new pointer
SeqSetPointer(length, new_position) ==
  IF new_position < length THEN new_position ELSE length - 1

NoOp == [op |-> "init", n |-> 0, from |-> 0]

\* SequencePointer(sequence, cycle): pointer 0
CursorInit ==
  /\ sp_len \in 0..MaxLen
  /\ sp_cycle \in BOOLEAN
  /\ sp_pointer = 0
  /\ sp_last = NoOp

CursorIdle ==
  /\ sp_len = 0
  /\ sp_cycle = TRUE
  /\ sp_pointer = 0
  /\ sp_last = NoOp

SP_next(n) ==
  /\ Abs(SeqNext(sp_pointer, sp_len, sp_cycle, n)) <= MaxPointer
  /\ sp_pointer' = SeqNext(sp_pointer, sp_len, sp_cycle, n)
  /\ sp_last' = [op |-> "next", n |-> n, from |-> sp_pointer]
  /\ UNCHANGED <<sp_len, sp_cycle, recVars, appVars, histVars, widgetVars, mn>>

SP_previous(n) ==
  /\ Abs(SeqPrevious(sp_pointer, sp_len, sp_cycle, n)) <= MaxPointer
  /\ sp_pointer' = SeqPrevious(sp_pointer, sp_len, sp_cycle, n)
  /\ sp_last' = [op |-> "previous", n |-> n, from |-> sp_pointer]
  /\ UNCHANGED <<sp_len, sp_cycle, recVars, appVars, histVars, widgetVars, mn>>

SP_set(v) ==
  /\ sp_pointer' = SeqSetPointer(sp_len, v)
  /\ sp_last' = [op |-> "set", n |-> v, from |-> sp_pointer]
  /\ UNCHANGED <<sp_len, sp_cycle, recVars, appVars, histVars, widgetVars, mn>>

NextCursor ==
  \/ \E n \in 0..MaxDelta : SP_next(n)
  \/ \E n \in 0..MaxDelta : SP_previous(n)
  \/ \E v \in (-MaxAssign)..MaxAssign : SP_set(v)

(***************************************************************************)
(* termutils: exceptions                                                   *)
(***************************************************************************)
NoExc == "none"
Conflict == "TypeError: conflicting terminal recorders"      \* start()
Piped == "TypeError: stdin piped"                            \* new_settings()
Closed == "TypeError: stdin is closed"                       \* new_settings()
BadSettings == "TypeError: tcsetattr, arg 3"                 \* termios, end()
ClosedFile == "ValueError: I/O operation on closed file"     \* select, record()
UserError == "TypeError: internal error"                     \* a handler's own
Interrupt == "KeyboardInterrupt"
SysExit == "SystemExit"

\* the class of an exception and the classes above it (Python's hierarchy)
ExcClass(e) ==
  IF e \in {Interrupt, SysExit} THEN e
  ELSE IF e = ClosedFile THEN "ValueError"
  ELSE "TypeError"

Bases(cls) ==
  IF cls \in {"KeyboardInterrupt", "SystemExit"} THEN {cls, "BaseException"}
  ELSE {cls, "Exception", "BaseException"}

\* issubclass(type(e), classes)
IsSubclass(e, classes) == Bases(ExcClass(e)) \cap classes # {}

(***************************************************************************)
(* termutils: the tty line discipline (termios)                            *)
(***************************************************************************)
\* _old_settings = None
None == [echo |-> FALSE, icanon |-> FALSE, opost |-> FALSE, vmin |-> -1]

\* what a program finds on stdin: the user's terminal as it was left
Cooked == [echo |-> TRUE, icanon |-> TRUE, opost |-> TRUE, vmin |-> 1]
NoEcho == [echo |-> FALSE, icanon |-> TRUE, opost |-> TRUE, vmin |-> 1]
OrigTtys == {Cooked, NoEcho}

\* tty.setraw(fd): no echo, no canonical mode, no output processing, VMIN 1
SetRaw(t) == [echo |-> FALSE, icanon |-> FALSE, opost |-> FALSE, vmin |-> 1]

\* new_settings[3] &= ~(ECHO | ICANON); VMIN = 0; VTIME = 0
NonCanonical(t) == [t EXCEPT !.echo = FALSE, !.icanon = FALSE, !.vmin = 0]

\* `stty sane` on a terminal; nothing to set when stdin is no terminal
SttySane(t) == IF stdin = "tty" THEN Cooked ELSE t

IsRawMode(t) == ~t.echo /\ ~t.icanon

(***************************************************************************)
(* termutils: the terminal's modes, set by the escape sequences written    *)
(***************************************************************************)
DecModes == {1, 4, 7, 25, 1003, 1005, 1006, 1007, 1014, 1015, 1034, 1035, 1049}
FullScreen == <<0, 0>>       \* the scrolling region after ESC[;r
NoRegion == <<>>             \* scrolling_region = None

\* ESC[?<mode>h / ESC[?<mode>l
Dec(mode, on) == [mode |-> mode, on |-> on, region |-> FullScreen]
\* ESC[<top>;<bottom>r
Stbm(region) == [mode |-> 0, on |-> TRUE, region |-> region]

When(cond, seq) == IF cond THEN seq ELSE <<>>

\* the terminal reads one escape sequence
FeedOne(t, tok) ==
  IF tok.mode = 0 THEN [t EXCEPT !.region = tok.region]
  ELSE [t EXCEPT !.dec[tok.mode] = tok.on]

RECURSIVE Feed(_, _)
Feed(t, seq) == IF seq = <<>> THEN t ELSE Feed(FeedOne(t, Head(seq)), Tail(seq))

\* '\x1b[?7h\x1b[?25h\x1b[?1005l\x1b[?1006l\x1b[?1015l\x1b[?1003l\x1b[?1l'
Baseline ==
  <<Dec(7, TRUE), Dec(25, TRUE), Dec(1005, FALSE), Dec(1006, FALSE),
    Dec(1015, FALSE), Dec(1003, FALSE), Dec(1, FALSE)>>

\* what open() writes, in order
OpenSequence(c) ==
  Baseline \o <<Dec(1, TRUE)>>
  \o When(c.alternate_buffer, <<Dec(1049, TRUE)>>)
  \o When(c.utf8_mouse, <<Dec(1005, TRUE)>>)
  \o When(c.sgr_mouse, <<Dec(1006, TRUE)>>)
  \o When(c.alternate_scroll, <<Dec(1007, TRUE)>>)
  \o When(c.urxvt_mouse, <<Dec(1015, TRUE)>>)
  \o When(~c.auto_wrap, <<Dec(7, FALSE)>>)
  \o When(c.hide_cursor, <<Dec(25, FALSE)>>)
  \o When(c.scrolling_region # NoRegion, <<Stbm(c.scrolling_region)>>)
  \o When(~c.smooth_scroll, <<Dec(4, FALSE)>>)
  \o When(c.fast_scroll, <<Dec(1014, TRUE)>>)
  \o When(c.meta_key, <<Dec(1034, TRUE)>>)
  \o When(c.alt_numlock, <<Dec(1035, TRUE)>>)
  \o When(c.mouse_events, <<Dec(1003, TRUE)>>)

\* a restore_defaults() that leaves the alternate buffer on
RestoreDefaults_KeepsAltBuffer(c) ==
  Baseline
  \o When(c.alternate_scroll, <<Dec(1007, FALSE)>>)
  \o When(c.scrolling_region # NoRegion, <<Stbm(FullScreen)>>)
  \o When(~c.smooth_scroll, <<Dec(4, TRUE)>>)
  \o When(c.fast_scroll, <<Dec(1014, FALSE)>>)
  \o When(c.meta_key, <<Dec(1034, FALSE)>>)
  \o When(c.alt_numlock, <<Dec(1035, FALSE)>>)

\* what restore_defaults() writes, in order
RestoreDefaults(c) ==
  Baseline
  \o When(c.alternate_scroll, <<Dec(1007, FALSE)>>)
  \o When(c.scrolling_region # NoRegion, <<Stbm(FullScreen)>>)
  \o When(~c.smooth_scroll, <<Dec(4, TRUE)>>)
  \o When(c.fast_scroll, <<Dec(1014, FALSE)>>)
  \o When(c.meta_key, <<Dec(1034, FALSE)>>)
  \o When(c.alt_numlock, <<Dec(1035, FALSE)>>)
  \o When(c.alternate_buffer, <<Dec(1049, FALSE)>>)

Regions == {<<2, 5>>}

\* _XtermAppConfig: every combination of the options
Configs ==
  [alternate_buffer : BOOLEAN, alternate_scroll : BOOLEAN, hide_cursor : BOOLEAN,
   scrolling_region : {NoRegion} \cup Regions, meta_key : BOOLEAN,
   alt_numlock : BOOLEAN, smooth_scroll : BOOLEAN, fast_scroll : BOOLEAN,
   auto_wrap : BOOLEAN, sgr_mouse : BOOLEAN, utf8_mouse : BOOLEAN,
   urxvt_mouse : BOOLEAN, mouse_events : BOOLEAN]

\* the defaults of _XtermAppConfig
DefaultConfig ==
  [alternate_buffer |-> FALSE, alternate_scroll |-> FALSE, hide_cursor |-> FALSE,
   scrolling_region |-> NoRegion, meta_key |-> FALSE, alt_numlock |-> FALSE,
   smooth_scroll |-> TRUE, fast_scroll |-> FALSE, auto_wrap |-> TRUE,
   sgr_mouse |-> FALSE, utf8_mouse |-> FALSE, urxvt_mouse |-> FALSE,
   mouse_events |-> FALSE]

\* the terminal as a program may find it: every mode off; or left by an
\* earlier program with no autowrap, no cursor, jump scroll, every other mode
\* on and a scrolling region
TermAllOff == [dec |-> [m \in DecModes |-> FALSE], region |-> FullScreen]
TermLeftOver == [dec |-> [m \in DecModes |-> m \notin {4, 7, 25}], region |-> <<3, 4>>]

(***************************************************************************)
(* termutils.TermInReader and XTermApplication: the calls, as functions of *)
(* the program state w (a record of the variables they read and write).    *)
(* w.exc is the exception a call raised and that is on its way up.         *)
(***************************************************************************)
NumRecorders == 2     \* live recorders (TermInReader.__instances)
MaxDepth == 2         \* read loops nested in handlers
MaxBindings == 2      \* bind() calls in all
MaxWrites == 1        \* payloads the sink takes
MaxFlushes == 2       \* flushes the sink takes

Recorders == 1..NumRecorders
AppRecorder == 1      \* XTermApplication._recorder

CTRL_D == "CTRL_D"    \* '\x04'
Keys == {"a", CTRL_D}

\* what a bound action or a hook does when called
Fn(f) == [fn |-> f, arg |-> 0]
Raisable == <<Interrupt, UserError>>
Callables ==
  {Fn("f"), Fn("g"), Fn("end"), Fn("exit"), Fn("write")}
  \cup {[fn |-> "raise", arg |-> i] : i \in 1..Len(Raisable)}
  \cup {[fn |-> "start", arg |-> r] : r \in Recorders}
\* the rest of _handle after the bound actions: the rescue or the hook
TailStep == Fn("tail")

NoBurst ==
  [rec |-> 0, via |-> "", depth |-> 0, key |-> "", bound |-> <<>>, hook |-> Fn(""),
   called |-> <<>>, rescued |-> FALSE, raised |-> FALSE, returned |-> FALSE]
NoStart == [rec |-> 0, raw_others |-> {}, was_normal |-> TRUE, result |-> NoExc,
            unchanged |-> TRUE]
NoCall == [op |-> "", rec |-> 0]
NoExit == [raised |-> NoExc, propagated |-> NoExc, called |-> FALSE]
NoInput == [rec |-> 0, max_chars |-> 0, was_normal |-> TRUE]

Raise(w, e) == [w EXCEPT !.exc = e]

\* open()/close() so far: "new" (neither yet), "open" (open() was the last),
\* "open-close" (a close() that followed an open()), "close" (a close() with
\* no open() before it), "close raised" (the last close() raised)
Lived(w, what) == [w EXCEPT !.life = what]

\* TermInReader.end(): tcsetattr raises TypeError for settings that are no
\* list (None); `finally` marks the recorder cooked either way
EndW(w, r) ==
  IF w.normal[r] THEN w
  ELSE IF stdin # "closed" /\ w.old_settings[r] = None
    THEN Raise([w EXCEPT !.normal[r] = TRUE], BadSettings)
  ELSE [w EXCEPT !.tty = IF stdin # "closed" THEN w.old_settings[r] ELSE @,
                 !.normal[r] = TRUE]

\* TermInReader.new_settings()
NewSettingsW(w, r) ==
  IF stdin = "pipe" THEN Raise(w, Piped)
  ELSE IF ~w.normal[r] THEN w
  ELSE IF stdin = "closed" THEN Raise([w EXCEPT !.normal[r] = FALSE], Closed)
  ELSE LET raw == SetRaw(w.tty) IN
       [w EXCEPT !.old_settings[r] = IF @ = None THEN raw ELSE @,
                 !.tty = NonCanonical(raw),
                 !.normal[r] = FALSE]

\* a read loop in progress: record() of recorder rec, called by start() or
\* directly (via), waiting in select or in the while loop (phase); while
\* _handle(key) runs (handling), todo holds the calls it has yet to make
Frame(r, via, timeout) ==
  [rec |-> r, via |-> via, phase |-> "select", timeout |-> timeout, key |-> "",
   handling |-> FALSE, todo |-> <<>>, called |-> <<>>, bound |-> <<>>,
   rescued |-> FALSE]

\* TermInReader.record(timeout) up to the select: the caller blocks in it
\* (a frame is pushed), or select raises on a closed file
RecordW(w, r, via, timeout) ==
  LET w1 == [w EXCEPT !.normal[r] = FALSE] IN
  IF Len(w.stack) >= MaxDepth THEN [w EXCEPT !.overflow = TRUE]
  ELSE LET w2 == [w1 EXCEPT !.stack = Append(@, Frame(r, via, timeout))] IN
       IF stdin = "closed" THEN Raise(w2, ClosedFile) ELSE w2

RawOthers(w, r) == {o \in Recorders \ {r} : ~w.normal[o]}

Snapshot(w) == <<w.normal, w.old_settings, w.tty>>

StartLog(w, r, after) ==
  [after EXCEPT !.start_log =
     [rec |-> r, raw_others |-> RawOthers(w, r), was_normal |-> w.normal[r],
      result |-> after.exc, unchanged |-> Snapshot(after) = Snapshot(w)]]

\* a start() that enters raw mode before it looks for a conflict
StartW_ChecksLate(w, r, timeout) ==
  LET w1 == NewSettingsW(w, r) IN
  IF w1.exc # NoExc THEN StartLog(w, r, w1)
  ELSE IF RawOthers(w, r) # {} THEN StartLog(w, r, Raise(w1, Conflict))
  ELSE StartLog(w, r, RecordW(w1, r, "start", timeout))

\* TermInReader.start(timeout) up to the select in record()
StartW(w, r, timeout) ==
  IF RawOthers(w, r) # {} THEN StartLog(w, r, Raise(w, Conflict))
  ELSE LET w1 == NewSettingsW(w, r) IN
       IF w1.exc # NoExc THEN StartLog(w, r, w1)
       ELSE StartLog(w, r, RecordW(w1, r, "start", timeout))

InputLog(w, r, max_chars, after) ==
  [after EXCEPT !.input_log =
     [rec |-> r, max_chars |-> max_chars, was_normal |-> w.normal[r]]]

\* TermInReader.input(prompt, max_chars): the state in which the line or the
\* characters are read
InputW(w, r, max_chars) ==
  InputLog(w, r, max_chars,
           IF max_chars = 0 \/ w.normal[r] THEN [w EXCEPT !.tty = SttySane(@)]
           ELSE EndW(w, r))

\* the target's write(s)
TargetWrite(w) ==
  IF w.sink.writes >= MaxWrites THEN [w EXCEPT !.overflow = TRUE]
  ELSE [w EXCEPT !.sink.writes = @ + 1]

\* the target's flush()
TargetFlush(w) ==
  IF w.sink.flushes >= MaxFlushes THEN [w EXCEPT !.overflow = TRUE]
  ELSE [w EXCEPT !.sink.flushes = @ + 1]

\* XTermApplication.write(s)
WriteW(w) ==
  IF w.in_app THEN [TargetWrite(w) EXCEPT !.io_log = "forwarded"]
  ELSE [w EXCEPT !.io_log = "dropped"]

\* XTermApplication.flush()
FlushW(w) ==
  IF w.in_app THEN [TargetFlush(w) EXCEPT !.io_log = "forwarded"]
  ELSE [w EXCEPT !.io_log = "dropped"]

\* XTermApplication.open()
OpenW(w) ==
  Lived(TargetFlush([w EXCEPT !.term = Feed(@, OpenSequence(config)),
                              !.in_app = TRUE]), "open")

\* XTermApplication.close(): recorder.end() first; when that raises, the
\* rest of close() does not run
CloseW(w) ==
  LET w1 == EndW(w, AppRecorder) IN
  IF w1.exc # NoExc THEN Lived(w1, "close raised")
  ELSE Lived([w1 EXCEPT !.in_app = FALSE,
                        !.term = Feed(@, RestoreDefaults(config)),
                        !.tty = SttySane(@)],
             IF w.life = "open" THEN "open-close" ELSE "close")

\* XTermApplication.__exit__(exc_type, ...): close(), then True (swallow) for
\* no exception or one of a class in safe_exceptions; close()'s own exception
\* goes up in place of e
ExitW(w, e) ==
  LET w1 == CloseW(w)
      up == IF w1.exc # NoExc THEN w1.exc
            ELSE IF e = NoExc \/ IsSubclass(e, safe_exceptions) THEN NoExc
            ELSE e
  IN [w1 EXCEPT !.exc = up, !.scope = FALSE,
                !.exit_log = [raised |-> e, propagated |-> up, called |-> TRUE]]

(***************************************************************************)
(* apps.BaseMenu: the stack of menus and simple_nav, the recorder's hook.  *)
(* What display() and cleanup() write is left out; that display() runs     *)
(* only in the application context is not.                                 *)
(***************************************************************************)
MaxMenus == 3         \* menus on the stack
MaxNavLog == 7        \* simple_nav() calls in a logged sequence

\* a payload: fn_a (a callable that touches nothing), a callable that pushes
\* menu arg with add_menu, or the value arg
Payload(kind, arg) == [kind |-> kind, arg |-> arg]
Item(label, payload) == [label |-> label, payload |-> payload]

Root == 1
Sub == 2
\* _Menu(items, selector, mode); items a SequencePointer(..., cycle)
MenuDefs ==
  <<[items |-> <<Item("A", Payload("fn_a", 0)), Item("B", Payload("push", Sub))>>,
     selector |-> "", mode |-> "horizontal", cycle |-> TRUE],
    [items |-> <<Item("X", Payload("value", 1)), Item("Y", Payload("value", 2))>>,
     selector |-> "receive", mode |-> "vertical", cycle |-> TRUE]>>
MenuIds == DOMAIN MenuDefs

NoNav == [key |-> "", menus |-> <<>>, pointer |-> [m \in MenuIds |-> 0]]
Did(what, arg) == [what |-> what, arg |-> arg]

\* BaseMenu(*initial_menus)
MenuNew(initial_menus, traced) ==
  [menus |-> initial_menus, pointer |-> [m \in MenuIds |-> 0], last |-> NoNav,
   traced |-> traced, log |-> <<>>]

\* the call is logged, where the specification logs the sequence
Logged(w, key, did) ==
  IF ~w.mn.traced THEN w
  ELSE IF Len(w.mn.log) >= MaxNavLog THEN [w EXCEPT !.overflow = TRUE]
  ELSE [w EXCEPT !.mn.log = Append(@, [key |-> key, did |-> did])]

\* display(use_previous): contextprotected; cleanup() and the rendering read
\* menus[-1]
DisplayW(w, use_previous) ==
  IF ~w.in_app THEN w
  ELSE IF w.mn.menus = <<>> THEN Raise(w, "IndexError")
  ELSE IF use_previous
    THEN LET w1 == [w EXCEPT !.mn.menus = SubSeq(@, 1, Len(@) - 1)] IN
         IF w1.mn.menus = <<>> THEN Raise(w1, "IndexError") ELSE w1
  ELSE w

\* _add_menu(menu, default_pos)
AddMenuW(w, m, default_pos) ==
  IF Len(w.mn.menus) >= MaxMenus THEN [w EXCEPT !.overflow = TRUE]
  ELSE IF w.in_app /\ w.mn.menus = <<>> THEN Raise(w, "IndexError")
  ELSE DisplayW([w EXCEPT !.mn.pointer[m] =
                            SeqSetPointer(Len(MenuDefs[m].items), default_pos),
                          !.mn.menus = Append(@, m)],
                FALSE)

\* a simple_nav() whose ESC goes back to the first item of the menu below
SimpleNavW_EscResetsPointer(w, key) ==
  IF w.mn.menus = <<>> THEN Raise(w, "IndexError")
  ELSE
    LET m == w.mn.menus[Len(w.mn.menus)]
        menu == MenuDefs[m]
        p == w.mn.pointer[m]
        w0 == [w EXCEPT !.mn.last = [key |-> key, menus |-> w.mn.menus,
                                     pointer |-> w.mn.pointer]]
    IN
    IF key = "ESC" /\ Len(w.mn.menus) > 1
      THEN LET w1 == DisplayW(Logged(w0, key, Did("pop", 0)), TRUE) IN
           [w1 EXCEPT !.mn.pointer = [i \in MenuIds |-> 0]]
    ELSE IF key = "ENTER"
      THEN LET item == menu.items[p + 1].payload IN
           IF menu.selector # "" THEN Logged(w0, key, Did(menu.selector, item.arg))
           ELSE IF item.kind = "fn_a" THEN Logged(w0, key, Did("fn_a", 0))
           ELSE IF item.kind = "push"
             THEN AddMenuW(Logged(w0, key, Did("push", item.arg)), item.arg, 0)
           ELSE Raise(Logged(w0, key, Did("raise", 0)), UserError)
    ELSE
      LET vertical == menu.mode = "vertical"
          horizontal == menu.mode = "horizontal"
          q == IF (vertical /\ key = "D_ARROW") \/ (horizontal /\ key = "R_ARROW")
                 THEN SeqNext(p, Len(menu.items), menu.cycle, 1)
               ELSE IF (vertical /\ key = "U_ARROW") \/ (horizontal /\ key = "L_ARROW")
                 THEN SeqPrevious(p, Len(menu.items), menu.cycle, 1)
               ELSE p
      IN DisplayW(Logged([w0 EXCEPT !.mn.pointer[m] = q], key, Did("show", q)), FALSE)

\* simple_nav(key)
SimpleNavW(w, key) ==
  IF w.mn.menus = <<>> THEN Raise(w, "IndexError")
  ELSE
    LET m == w.mn.menus[Len(w.mn.menus)]
        menu == MenuDefs[m]
        p == w.mn.pointer[m]
        w0 == [w EXCEPT !.mn.last = [key |-> key, menus |-> w.mn.menus,
                                     pointer |-> w.mn.pointer]]
    IN
    IF key = "ESC" /\ Len(w.mn.menus) > 1
      THEN DisplayW(Logged(w0, key, Did("pop", 0)), TRUE)
    ELSE IF key = "ENTER"
      THEN LET item == menu.items[p + 1].payload IN
           IF menu.selector # "" THEN Logged(w0, key, Did(menu.selector, item.arg))
           ELSE IF item.kind = "fn_a" THEN Logged(w0, key, Did("fn_a", 0))
           ELSE IF item.kind = "push"
             THEN AddMenuW(Logged(w0, key, Did("push", item.arg)), item.arg, 0)
           ELSE Raise(Logged(w0, key, Did("raise", 0)), UserError)
    ELSE
      LET vertical == menu.mode = "vertical"
          horizontal == menu.mode = "horizontal"
          q == IF (vertical /\ key = "D_ARROW") \/ (horizontal /\ key = "R_ARROW")
                 THEN SeqNext(p, Len(menu.items), menu.cycle, 1)
               ELSE IF (vertical /\ key = "U_ARROW") \/ (horizontal /\ key = "L_ARROW")
                 THEN SeqPrevious(p, Len(menu.items), menu.cycle, 1)
               ELSE p
      IN DisplayW(Logged([w0 EXCEPT !.mn.pointer[m] = q], key, Did("show", q)), FALSE)

\* BaseMenu.exit(): cleanup() and close()
MenuExitW(w) ==
  IF w.in_app /\ w.mn.menus = <<>> THEN Raise(w, "IndexError") ELSE CloseW(w)

(***************************************************************************)
(* termutils.LineBuffer. A string is a sequence of characters; a key burst *)
(* is a character or the name of a control key (utils.Ctrl).               *)
(***************************************************************************)
MaxLine == 2          \* characters in the line
MaxHistory == 3       \* entries in _local_history
MaxKeys == 8          \* keys in a logged sequence

Whitespace == {" "}
Printable == {"a", " ", "h", "e", "l", "o", "p", "."}   \* len 1, ord >= 0x20
EnterCodes == {"ENTER"}                       \* Ctrl.ENTER
DelCodes == {"DEL", "."}                      \* Ctrl.DEL: '\x2e' is the full stop
BackspaceCodes == {"BACKSPACE"}               \* Ctrl.BACKSPACE
TabSize == 4                                  \* LineBuffer(tabsize=4)

IsSpace(str) == str # <<>> /\ \A i \in 1..Len(str) : str[i] \in Whitespace

\* string[:n] and string[n:] for 0 <= n
Take(str, n) == SubSeq(str, 1, Min(n, Len(str)))
Drop(str, n) == IF n >= Len(str) THEN <<>> ELSE SubSeq(str, n + 1, Len(str))

SetMin(S) == CHOOSE x \in S : \A y \in S : x <= y
SetMax(S) == CHOOSE x \in S : \A y \in S : x >= y

NoReturn == [sent |-> FALSE, text |-> <<>>]
Returned(text) == [sent |-> TRUE, text |-> text]

\* LineBuffer(): reset(), empty history; then the prompt setter
LineBufferNew(prompt) ==
  [line |-> <<>>, pos |-> Len(prompt), history_pos |-> 0, local_history |-> <<>>,
   prompt |-> prompt, exc |-> NoExc, ret |-> NoReturn]

TruePos(b) == b.pos - Len(b.prompt)

\* cursor_left(n): the buffer after it; `valid` is CanLeft before it
CanLeft(b) == TruePos(b) > 0
CursorLeft(b, n) ==
  IF CanLeft(b) THEN [b EXCEPT !.pos = @ - Min(n, TruePos(b))] ELSE b

\* cursor_right(n)
CanRight(b) == Len(b.prompt) + Len(b.line) - b.pos > 0
CursorRight(b, n) ==
  IF CanRight(b)
    THEN [b EXCEPT !.pos = @ + Min(n, Len(b.prompt) + Len(b.line) - b.pos)]
    ELSE b

\* _local_history[-k] for k >= 1: IndexError when out of range
HistoryAt(b, k) ==
  IF k <= Len(b.local_history)
    THEN [b EXCEPT !.line = b.local_history[Len(b.local_history) - k + 1],
                   !.pos = Len(b.local_history[Len(b.local_history) - k + 1])
                           + Len(b.prompt)]
    ELSE [b EXCEPT !.exc = "IndexError"]

\* history_up()
HistoryUp(b) ==
  IF b.history_pos = 0 \/ b.history_pos < Len(b.local_history) - 1
    THEN LET b1 == IF b.history_pos = 0
                     THEN [b EXCEPT !.local_history = Append(@, b.line)]
                     ELSE b
             b2 == [b1 EXCEPT !.history_pos = @ + 1]
         IN HistoryAt(b2, b2.history_pos + 1)
    ELSE b

\* history_down()
HistoryDown(b) ==
  IF b.history_pos > 0
    THEN LET b1 == [b EXCEPT !.history_pos = @ - 1] IN
         IF b1.history_pos = 0
           THEN IF b1.local_history = <<>> THEN [b1 EXCEPT !.exc = "IndexError"]
                ELSE LET last == b1.local_history[Len(b1.local_history)] IN
                     [b1 EXCEPT !.local_history = Take(@, Len(@) - 1),
                                !.line = last,
                                !.pos = Len(last) + Len(b1.prompt)]
           ELSE HistoryAt(b1, b1.history_pos + 1)
    ELSE b

\* enter_send()
EnterSend(b) ==
  LET h == b.local_history
      h1 == IF h = <<>> \/ b.line # h[Len(h)]
              THEN Append(IF b.history_pos # 0 THEN Take(h, Len(h) - 1) ELSE h, b.line)
              ELSE h
  IN [b EXCEPT !.local_history = h1, !.line = <<>>, !.pos = Len(b.prompt),
               !.ret = Returned(b.line)]

\* insert(char): at _line[:_pos], the position that counts the prompt in
Insertable(char, str) ==
  \/ char \notin EnterCodes /\ IsSpace(str)
  \/ char \in Printable
Insert(b, char, str) ==
  IF Insertable(char, str)
    THEN [b EXCEPT !.line = Take(@, b.pos) \o str \o Drop(@, b.pos), !.pos = @ + 1]
    ELSE b

\* re.search(r'.*(?<!\s)(?=\s+\S+)', substr): the ends it can match at
\* (the greedy .* takes the last of them)
WordEnds(str) ==
  {e \in 0..Len(str) :
     /\ e = 0 \/ str[e] \notin Whitespace
     /\ \E k \in (e + 1)..(Len(str) - 1) :
          /\ \A j \in (e + 1)..k : str[j] \in Whitespace
          /\ str[k + 1] \notin Whitespace}

\* re.search(r'\s+(?=\S)', str): the ends of the whitespace runs a word
\* follows (the search takes the first of them)
GapEnds(str) ==
  {e \in 1..(Len(str) - 1) : str[e] \in Whitespace /\ str[e + 1] \notin Whitespace}

\* key(): CTRL_LARROW / OPT_LARROW
WordLeft(b) ==
  LET substr == Take(b.line, TruePos(b))
      offset == IF WordEnds(substr) # {} THEN TruePos(b) - SetMax(WordEnds(substr))
                ELSE Len(b.line)
  IN CursorLeft(b, offset)

\* key(): CTRL_RARROW / OPT_RARROW
WordRight(b) ==
  LET rest == Drop(b.line, TruePos(b) + 1)
      offset == IF GapEnds(rest) # {} THEN SetMin(GapEnds(rest)) + 1 ELSE Len(b.line)
  IN CursorRight(b, offset)

\* key(): a backspace that deletes under the cursor when there is nothing
\* to the left of it
Backspace_DeletesAtStart(b) ==
  LET b1 == CursorLeft(b, 1) IN
  [b1 EXCEPT !.line = Take(@, TruePos(b1)) \o Drop(@, TruePos(b1) + 1)]

\* key(): Ctrl.BACKSPACE, `self.cursor_left()` and the deletion
Backspace(b) ==
  IF CanLeft(b)
    THEN LET b1 == CursorLeft(b, 1) IN
         [b1 EXCEPT !.line = Take(@, TruePos(b1)) \o Drop(@, TruePos(b1) + 1)]
    ELSE b

\* key(): Ctrl.DEL
Delete(b) ==
  IF b.pos < Len(b.prompt) + Len(b.line)
    THEN [b EXCEPT !.line = Take(@, TruePos(b)) \o Drop(@, TruePos(b) + 1)]
    ELSE b

\* key(char) of a LineBuffer(send_with_enter, cursor_movement, use_history)
LineKeyOf(b0, char, send_with_enter, cursor_movement, use_history) ==
  LET b == [b0 EXCEPT !.ret = NoReturn, !.exc = NoExc] IN
  IF char \in DelCodes THEN Delete(b)
  ELSE IF char \in BackspaceCodes THEN Backspace(b)
  ELSE IF char = "TAB" THEN Insert(b, " ", [i \in 1..TabSize |-> " "])
  ELSE
    LET b1 == Insert(b, char, <<char>>)
        b2 == IF ~cursor_movement THEN b1
              ELSE CASE char = "R_ARROW" -> CursorRight(b1, 1)
                     [] char = "L_ARROW" -> CursorLeft(b1, 1)
                     [] char = "HOME" -> CursorLeft(b1, Len(b1.line))
                     [] char = "END" -> CursorRight(b1, Len(b1.line))
                     [] char \in {"CTRL_LARROW", "OPT_LARROW"} -> WordLeft(b1)
                     [] char \in {"CTRL_RARROW", "OPT_RARROW"} -> WordRight(b1)
                     [] OTHER -> b1
        b3 == IF ~use_history THEN b2
              ELSE CASE char = "U_ARROW" -> HistoryUp(b2)
                     [] char = "D_ARROW" -> HistoryDown(b2)
                     [] OTHER -> b2
    IN IF b3.exc # NoExc THEN b3
       ELSE IF send_with_enter /\ char \in EnterCodes THEN EnterSend(b3)
       ELSE b3

\* key(char) of LineBuffer(): the defaults
LineKey(b, char) == LineKeyOf(b, char, TRUE, TRUE, TRUE)

Hello == <<"h", "e", "l", "l", "o">>

NoKey == [key |-> "", shown |-> <<>>, ret |-> NoReturn, exc |-> NoExc]

\* the caller passes a burst to key(); the specification logs the sequence
\* of keys (log) or only the last one
Key(char, log) ==
  LET b == LineKey(lb, char) IN
  /\ Len(b.line) <= IF log THEN Len(Hello) ELSE MaxLine
  /\ Len(b.local_history) <= MaxHistory
  /\ log => Len(lb_trace) < MaxKeys
  /\ lb' = b
  /\ lb_last' = [key |-> char, shown |-> lb.line, ret |-> b.ret, exc |-> b.exc]
  /\ lb_trace' = IF log THEN Append(lb_trace, char) ELSE lb_trace
  /\ UNCHANGED <<cursorVars, recVars, appVars, histVars, mn, ma, finderVars, tr>>

LineKeys ==
  {"a", " ", "BACKSPACE", "DEL", "L_ARROW", "R_ARROW", "HOME", "END", "CTRL_LARROW",
   "CTRL_RARROW", "U_ARROW", "D_ARROW", "ENTER"}

\* a LineBuffer fed any keys
NextLine == \E k \in LineKeys : Key(k, FALSE)

HelloControls == {"CTRL_LARROW", "BACKSPACE", "ENTER"}

\* the letters typed so far
Typed(trace) == SelectSeq(trace, LAMBDA k : k \in Printable)

\* a LineBuffer on which hello is typed, with control keys at any point
NextHello ==
  \/ \E k \in HelloControls : Key(k, TRUE)
  \/ /\ Len(Typed(lb_trace)) < Len(Hello)
     /\ Key(Hello[Len(Typed(lb_trace)) + 1], TRUE)

LineIdle ==
  /\ lb = LineBufferNew(<<>>)
  /\ lb_last = NoKey
  /\ lb_trace = <<>>

LineInit ==
  /\ lb = LineBufferNew(<<">", " ">>)
  /\ lb_last = NoKey
  /\ lb_trace = <<>>

MenuIdle == mn = MenuNew(<<>>, FALSE)

(***************************************************************************)
(* apps.FuzzyFinder: matching, scoring and the order of the results.       *)
(* Indices count from 0 as in the source. A score is the fraction          *)
(* raw / upto; raw is kept in twentieths (0.05), so 1 is 20 and 0.5 is 10. *)
(***************************************************************************)
MaxItem == 2          \* characters in a candidate drawn
MaxQuery == 1         \* characters in a query drawn (one more is then added)

\* str.casefold() on the characters used
CaseFold(char) ==
  CASE char = "A" -> "a"
    [] char = "B" -> "b"
    [] char = "P" -> "p"
    [] char = "L" -> "l"
    [] OTHER -> char
Fold(str) == [i \in 1..Len(str) |-> CaseFold(str[i])]

\* str.find(char, start): the first index from start on, or -1
Find(str, char, start) ==
  LET at == {i \in start..(Len(str) - 1) : str[i + 1] = char} IN
  IF at = {} THEN -1 ELSE SetMin(at)

\* `return` with no value: falsy
NoMatch == [found |-> FALSE, indices |-> <<>>, raw |-> 0, upto |-> 1]

\* a score of 1 for a character whatever its case
CharScore_IgnoresCase(item_char, char) == 20

\* what a matched character adds to the score, the gap apart: 0.5 if its case
\* differs from the query's, 1 otherwise
CharScore(item_char, char) == IF item_char # char THEN 10 ELSE 20

\* the loop of _matches_query from the k-th character of the query on
RECURSIVE Scan(_, _, _, _, _, _)
Scan(query, item, k, last_index, indices, raw) ==
  IF k > Len(query)
    THEN IF indices = <<>> THEN NoMatch
         ELSE [found |-> TRUE, indices |-> indices, raw |-> raw, upto |-> last_index + 1]
    ELSE LET char == query[k]
             i == Find(Fold(item), CaseFold(char), last_index + 1)
             gap == i - last_index - 1
         IN IF i = -1 THEN NoMatch
            ELSE Scan(query, item, k + 1, i, Append(indices, i),
                      raw + CharScore(item[i + 1], char) + gap)

\* _matches_query(query, item)
MatchesQuery(query, item) == Scan(query, item, 1, -1, <<>>, 0)

\* a comparison that puts a candidate ahead of those of the same score
ScoresAtLeast_Strictly(x, y) == x.raw * y.upto > y.raw * x.upto

\* [1] of the results, compared: x scores at least what y does
ScoresAtLeast(x, y) == x.raw * y.upto >= y.raw * x.upto

\* sorted(..., key=score, reverse=True): stable, so equal scores keep the
\* order of the candidates. Ahead(scores, i) are the candidates sorted before
\* the i-th.
Ahead(scores, i) ==
  {j \in DOMAIN scores :
     \/ j < i /\ ScoresAtLeast(scores[j], scores[i])
     \/ j > i /\ ~ScoresAtLeast(scores[i], scores[j])}

SortedByScore(items, query) ==
  LET scores == [i \in 1..Len(items) |-> MatchesQuery(query, items[i])]
      place == [i \in 1..Len(items) |-> Cardinality(Ahead(scores, i)) + 1]
  IN IF scores = <<>> \/ place = <<>> THEN <<>>    \* nothing to sort
     ELSE [k \in 1..Len(items) |-> items[CHOOSE i \in 1..Len(items) : place[i] = k]]

\* a search with no case of its own for the empty query
SearchList_FiltersEmptyQuery(objects, query) ==
  SortedByScore(SelectSeq(objects, LAMBDA obj : MatchesQuery(query, obj).found), query)

\* search_bar(): the new self._sublist for a query
SearchList(objects, query) ==
  IF query = <<>> THEN objects
  ELSE SortedByScore(SelectSeq(objects, LAMBDA obj : MatchesQuery(query, obj).found),
                     query)

Range(seq) == {seq[i] : i \in 1..Len(seq)}

RECURSIVE Strings(_, _)
Strings(chars, n) ==
  IF n = 0 THEN {<<>>}
  ELSE Strings(chars, n - 1)
       \cup {Append(str, c) : str \in {x \in Strings(chars, n - 1) : Len(x) = n - 1},
                              c \in chars}

\* query with char put in after its first `at` characters
WithChar(query, at, char) == Take(query, at) \o <<char>> \o Drop(query, at)

MatchChars == {"a", "A", "b"}
Apple == <<"a", "p", "p", "l", "e">>
CapitalApple == <<"A", "p", "p", "l", "e">>

\* the searches drawn: two candidates, a query, a character added to it
Searches ==
  {[objects |-> <<x, y>>, query |-> q, longer |-> WithChar(q, at, c)] :
     x \in Strings(MatchChars, MaxItem) \ {<<>>},
     y \in Strings(MatchChars, MaxItem) \ {<<>>},
     q \in Strings(MatchChars, MaxQuery),
     at \in 0..MaxQuery, c \in MatchChars}
  \cup {[objects |-> <<Apple, CapitalApple>>, query |-> <<"A">>, longer |-> <<"A", "p">>]}

NotSearched == [done |-> FALSE, sublist |-> <<>>, longer_sublist |-> <<>>,
                matches |-> <<>>, longer_matches |-> <<>>]

\* the finder searches for the query and for the longer one
Search ==
  /\ ~ma.out.done
  /\ ma' = [ma EXCEPT !.out =
       [done |-> TRUE,
        sublist |-> SearchList(ma.objects, ma.query),
        longer_sublist |-> SearchList(ma.objects, ma.longer),
        matches |-> [i \in 1..Len(ma.objects) |-> MatchesQuery(ma.query, ma.objects[i])],
        longer_matches |->
          [i \in 1..Len(ma.objects) |-> MatchesQuery(ma.longer, ma.objects[i])]]]
  /\ UNCHANGED <<cursorVars, recVars, appVars, histVars, lineVars, mn, finderVars, tr>>

NextMatch == Search

MatchIdle ==
  ma = [objects |-> <<>>, query |-> <<>>, longer |-> <<>>, out |-> NotSearched]

MatchInit ==
  \E search \in Searches :
    ma = [objects |-> search.objects, query |-> search.query,
          longer |-> search.longer, out |-> NotSearched]

(***************************************************************************)
(* apps.FuzzyFinder: the viewport. What the finder draws (footer,          *)
(* writelines, highlight, clear) changes none of its fields and is left    *)
(* out; search_bar is @contextprotected, the moves are not.                *)
(***************************************************************************)
MaxTyped == 2         \* characters typed into the search bar

Maple == <<"m", "a", "p", "l", "e">>
Plum == <<"p", "l", "u", "m">>
Pineapple == <<"p", "i", "n", "e", "a", "p", "p", "l", "e">>
Fruits == <<Apple, Maple, Plum, Pineapple>>
Fifty == [i \in 1..50 |-> <<"a">>]

\* _value: None, or the string sent
NoValue == [some |-> FALSE, text |-> <<>>]
Value(text) == [some |-> TRUE, text |-> text]

\* FuzzyFinder(objects) on a terminal of `lines` lines; receiver tells
\* whether one was given, received lists what it was called with
FinderNew(objects, lines) ==
  [objects |-> objects, sublist |-> objects, pointer |-> 0, start_index |-> 0,
   maxlines |-> lines - 2, line_buffer |-> LineBufferNew(<<>>),
   current_query |-> <<>>, value |-> NoValue, receiver |-> FALSE,
   received |-> <<>>]

\* scroll_up(n)
ScrollUp(f, n) ==
  IF f.start_index > 0
    THEN [f EXCEPT !.start_index = @ - SetMin({n, f.start_index})]
    ELSE f

\* scroll_down(n)
ScrollDown(f, n) ==
  LET listsize == Len(f.sublist) IN
  IF f.start_index + f.maxlines < listsize
    THEN [f EXCEPT !.start_index =
            @ + SetMin({n, listsize - f.start_index - f.maxlines})]
    ELSE f

\* scroll_to_view()
ScrollToView(f) ==
  LET offset == f.pointer - f.start_index IN
  IF offset \notin 0..(f.maxlines - 1)
    THEN IF offset < 0 THEN ScrollUp(f, -offset) ELSE ScrollDown(f, offset)
    ELSE f

\* a move down that brings the pointer to the top of the window
NextItem_ScrollsToTop(f, n) ==
  IF Len(f.sublist) > 0
    THEN LET g == [f EXCEPT !.pointer = SeqNext(@, Len(f.sublist), FALSE, n)] IN
         IF g.pointer >= g.start_index + g.maxlines
           THEN ScrollDown(g, g.pointer - g.start_index)
           ELSE g
    ELSE f

\* next_item(n)
NextItem(f, n) ==
  IF Len(f.sublist) > 0
    THEN LET g == [f EXCEPT !.pointer = SeqNext(@, Len(f.sublist), FALSE, n)] IN
         IF g.pointer >= g.start_index + g.maxlines
           THEN ScrollDown(g, g.pointer - g.start_index - g.maxlines + 1)
           ELSE g
    ELSE f

\* previous_item(n)
PreviousItem(f, n) ==
  IF Len(f.sublist) > 0
    THEN LET g == [f EXCEPT !.pointer = SeqPrevious(@, Len(f.sublist), FALSE, n)] IN
         IF g.pointer < g.start_index THEN ScrollToView(g) ELSE g
    ELSE f

\* search_bar(), in the application context or not
SearchBar(f, in_context) ==
  LET query == f.line_buffer.line IN
  IF in_context /\ query # f.current_query
    THEN [f EXCEPT !.current_query = query,
                   !.sublist = SearchList(f.objects, query),
                   !.pointer = 0,
                   !.start_index = 0]
    ELSE f

\* key.count('\x1b[M`') and key.count('\x1b[Ma'): the wheel events of a burst
WheelUps(key) == IF key = "WHEEL_UP" THEN 1 ELSE 0
WheelDowns(key) == IF key = "WHEEL_DOWN" THEN 1 ELSE 0

\* handle_key(key), the recorder's hook
HandleKey(f, key, in_context) ==
  LET up == WheelUps(key)
      down == WheelDowns(key)
      g == NextItem(PreviousItem(f, up), down)
      h == IF up = 0 /\ down = 0
             THEN [g EXCEPT !.line_buffer = LineKeyOf(@, key, FALSE, TRUE, FALSE)]
             ELSE g
  IN SearchBar(h, in_context)

\* what __init__ binds to the key; ENTER, CTRL_C and CTRL_D end the finder
\* and are not typed here
FinderBound(f, key) ==
  CASE key = "D_ARROW" -> NextItem(f, 1)
    [] key = "U_ARROW" -> PreviousItem(f, 1)
    [] key = "PG_UP" -> PreviousItem(f, Len(f.objects))
    [] key = "PG_DOWN" -> NextItem(f, Len(f.objects))
    [] OTHER -> f

\* a send() that leaves the recorder running
SendW_KeepsRecording(w) ==
  IF w.ff.sublist # <<>>
    THEN LET s == w.ff.sublist[w.ff.pointer + 1] IN
         [w EXCEPT !.ff.value = Value(s),
                   !.ff.received = IF w.ff.receiver THEN Append(@, s) ELSE @]
    ELSE w

\* send(), bound to ENTER, on the program state w with the finder in w.ff
SendW(w) ==
  IF w.ff.sublist # <<>>
    THEN LET w1 == EndW(w, AppRecorder) IN
         IF w1.exc # NoExc THEN w1
         ELSE LET s == w1.ff.sublist[w1.ff.pointer + 1] IN
              [w1 EXCEPT !.ff.value = Value(s),
                         !.ff.received = IF w1.ff.receiver THEN Append(@, s) ELSE @]
    ELSE w

\* exit(), bound to CTRL_C and CTRL_D
FinderExitW(w) == CloseW([w EXCEPT !.ff.value = NoValue])

\* FuzzyFinder.start(), @contextprotected
FinderStartW(w) == IF w.in_app THEN StartW(w, AppRecorder, FALSE) ELSE w

FinderChars == {"p", "l", "a"}
FinderKeys ==
  FinderChars \cup {"BACKSPACE", "D_ARROW", "U_ARROW", "PG_UP", "PG_DOWN",
                    "WHEEL_UP", "WHEEL_DOWN"}
FinderSteps == {0, 1, 15, 20}

NoMove == [op |-> "init", n |-> 0, key |-> "", pointer |-> 0, start_index |-> 0]
Moved(op, n, key) ==
  [op |-> op, n |-> n, key |-> key, pointer |-> ff.pointer,
   start_index |-> ff.start_index]

FinderUnchanged ==
  UNCHANGED <<cursorVars, recVars, appVars, histVars, lineVars, mn, ma, tr>>

\* next_item(n) is called
FinderNextItem(n) ==
  /\ ff' = NextItem(ff, n)
  /\ ff_last' = Moved("next_item", n, "")
  /\ FinderUnchanged

\* previous_item(n) is called
FinderPreviousItem(n) ==
  /\ ff' = PreviousItem(ff, n)
  /\ ff_last' = Moved("previous_item", n, "")
  /\ FinderUnchanged

\* the recorder handles a burst: what the key is bound to, then handle_key.
\* The read loop runs in the application context only: start() is
\* @contextprotected and close() ends the recorder.
FinderKey(key) ==
  LET f == HandleKey(FinderBound(ff, key), key, in_app) IN
  /\ in_app
  /\ Len(f.line_buffer.line) <= MaxTyped
  /\ ff' = f
  /\ ff_last' = Moved("key", 0, key)
  /\ FinderUnchanged

FinderIdle == ff = FinderNew(<<>>, 2) /\ ff_last = NoMove

\* the finders checked: the objects and the lines of the terminal
FinderSetups ==
  {[objects |-> Fruits, lines |-> 3], [objects |-> Fruits, lines |-> 4],
   [objects |-> Fifty, lines |-> 12]}

FinderInit ==
  /\ \E setup \in FinderSetups : ff = FinderNew(setup.objects, setup.lines)
  /\ ff_last = NoMove

(***************************************************************************)
(* The read loop: record() and _handle(), and the way an exception goes up *)
(* through the loops in progress                                           *)
(***************************************************************************)
Top(w) == w.stack[Len(w.stack)]
Pop(w) == [w EXCEPT !.stack = SubSeq(@, 1, Len(@) - 1)]
SetTop(w, f) == [w EXCEPT !.stack[Len(w.stack)] = f]

\* a bound action or a hook, called in the loop of recorder r
Exec(w, r, c) ==
  CASE c.fn = "end" -> EndW(w, r)
    [] c.fn = "exit" -> CloseW(w)
    [] c.fn = "write" -> FlushW(WriteW(w))
    [] c.fn = "raise" -> Raise(w, Raisable[c.arg])
    [] c.fn = "start" -> StartW(w, c.arg, FALSE)
    [] c.fn = "simple_nav" -> SimpleNavW(w, Top(w).key)
    [] c.fn = "menu_exit" -> MenuExitW(w)
    [] OTHER -> w

\* the _handle() call of frame f is over
BurstLog(w, f, returned) ==
  [w EXCEPT !.done_burst =
     [rec |-> f.rec, via |-> f.via, depth |-> Len(w.stack), key |-> f.key,
      bound |-> f.bound, hook |-> func[f.rec], called |-> f.called,
      rescued |-> f.rescued, raised |-> ~returned /\ ~f.rescued,
      returned |-> returned]]

\* _handle() after the bound actions: `if key == '\x04'` end() and
\* sys.exit(1), else the active hook
TailW(w) ==
  LET f == Top(w) IN
  IF f.key = CTRL_D
    THEN LET w1 == EndW(SetTop(w, [f EXCEPT !.todo = <<>>, !.rescued = TRUE]), f.rec)
         IN IF w1.exc # NoExc THEN w1 ELSE Raise(w1, SysExit)
    ELSE Exec(SetTop(w, [f EXCEPT !.todo = <<>>,
                                  !.called = Append(@, func[f.rec])]),
              f.rec, func[f.rec])

\* _handle(): the next call it makes
Step(w) ==
  LET f == Top(w)
      c == Head(f.todo)
  IN IF c = TailStep THEN TailW(w)
     ELSE Exec(SetTop(w, [f EXCEPT !.todo = Tail(@), !.called = Append(@, c)]),
               f.rec, c)

\* record() returns to its caller: start()'s `finally: self.end()`
ReturnW(w) ==
  LET f == Top(w) IN
  IF f.via = "start" THEN EndW(Pop(w), f.rec) ELSE Pop(w)

\* an exception leaves record(): start() swallows KeyboardInterrupt and
\* SystemExit, ends the recorder, and lets any other go up
UnwindW(w) ==
  LET f == Top(w)
      logged == IF f.handling THEN BurstLog(w, f, FALSE) ELSE w
      ended == ReturnW([logged EXCEPT !.exc = NoExc])
  IN IF f.via = "record" THEN Raise(ended, w.exc)
     ELSE IF ended.exc # NoExc THEN ended
     ELSE IF w.exc \in {Interrupt, SysExit} THEN ended
     ELSE Raise(ended, w.exc)

\* the program runs on until it waits for input (select, or the next read
\* of the loop) or is back in the top-level caller
RECURSIVE Run(_)
Run(w) ==
  IF w.overflow \/ w.stack = <<>> THEN w
  ELSE LET f == Top(w) IN
    IF w.exc # NoExc THEN Run(UnwindW(w))
    ELSE IF f.todo # <<>> THEN Run(Step(w))
    ELSE IF f.handling
      THEN Run(BurstLog(SetTop(w, [f EXCEPT !.handling = FALSE]), f, TRUE))
    ELSE IF f.phase = "select" THEN w
    ELSE IF w.normal[f.rec] THEN Run(ReturnW(w))
    ELSE w

\* ... and, back in the top-level caller, the call's result is known
Settle(w) ==
  LET r == Run(w) IN
  IF r.stack # <<>> \/ r.overflow THEN r
  ELSE [r EXCEPT !.outcome = r.exc, !.pending = NoCall, !.exc = NoExc]

(***************************************************************************)
(* The actions: the calls of a top-level caller (no read loop in progress) *)
(* and the input events of the innermost read loop                         *)
(***************************************************************************)
WorldOf ==
  [tty |-> tty, normal |-> normal, old_settings |-> old_settings, stack |-> stack,
   in_app |-> in_app, term |-> term, sink |-> sink, scope |-> scope,
   pending |-> pending, outcome |-> outcome, start_log |-> start_log,
   done_burst |-> done_burst, exit_log |-> exit_log, io_log |-> io_log,
   input_log |-> input_log,
   life |-> life, mn |-> mn,
   exc |-> NoExc, overflow |-> FALSE]

Assign(w) ==
  /\ ~w.overflow
  /\ tty' = w.tty
  /\ normal' = w.normal
  /\ old_settings' = w.old_settings
  /\ stack' = w.stack
  /\ in_app' = w.in_app
  /\ term' = w.term
  /\ sink' = w.sink
  /\ scope' = w.scope
  /\ pending' = w.pending
  /\ outcome' = w.outcome
  /\ start_log' = w.start_log
  /\ done_burst' = w.done_burst
  /\ exit_log' = w.exit_log
  /\ io_log' = w.io_log
  /\ input_log' = w.input_log
  /\ life' = w.life
  /\ mn' = w.mn

Commit(w) ==
  /\ Assign(w)
  /\ UNCHANGED <<stdin, bindings, func, config, safe_exceptions, cursorVars,
                 widgetVars>>

\* a top-level call begins
Begin(op, r) ==
  [WorldOf EXCEPT !.pending = [op |-> op, rec |-> r], !.outcome = NoExc,
                  !.done_burst = NoBurst, !.start_log = NoStart,
                  !.exit_log = NoExit, !.io_log = "",
                  !.input_log = NoInput]

Bound == LET n[r \in 0..NumRecorders] ==
               IF r = 0 THEN 0
               ELSE n[r - 1] + Len(bindings[r]["a"]) + Len(bindings[r][CTRL_D])
         IN n[NumRecorders]

\* recorder.bind(code, func)
Bind(r, k, c) ==
  /\ stack = <<>>
  /\ Bound < MaxBindings
  /\ bindings' = [bindings EXCEPT ![r][k] = Append(@, c)]
  /\ UNCHANGED <<stdin, tty, normal, old_settings, func, stack, appVars, histVars,
                 cursorVars, widgetVars, mn>>

\* recorder.start(timeout)
Start(r, timeout) ==
  /\ stack = <<>>
  /\ Commit(Settle(StartW(Begin("start", r), r, timeout)))

\* recorder.new_settings()
NewSettings(r) ==
  /\ stack = <<>>
  /\ Commit(Settle(NewSettingsW(Begin("new_settings", r), r)))

\* recorder.end()
End(r) ==
  /\ stack = <<>>
  /\ Commit(Settle(EndW(Begin("end", r), r)))

\* recorder.record(timeout)
Record(r, timeout) ==
  /\ stack = <<>>
  /\ Commit(Settle(RecordW(Begin("record", r), r, "record", timeout)))

\* recorder.input(prompt, max_chars); max_chars 0 stands for None
Input(r, max_chars) ==
  /\ stack = <<>>
  /\ Commit(Settle(InputW(Begin("input", r), r, max_chars)))

\* app.open()
Open ==
  /\ stack = <<>>
  /\ Commit(Settle(OpenW(Begin("open", 0))))

\* app.close()
Close ==
  /\ stack = <<>>
  /\ Commit(Settle(CloseW(Begin("close", 0))))

\* app.write(s)
Write ==
  /\ stack = <<>>
  /\ Commit(Settle(WriteW(Begin("write", 0))))

\* app.flush()
Flush ==
  /\ stack = <<>>
  /\ Commit(Settle(FlushW(Begin("flush", 0))))

\* `with app:` is entered: __enter__
EnterScope ==
  /\ stack = <<>>
  /\ ~scope
  /\ Commit(Settle([OpenW(Begin("enter", 0)) EXCEPT !.scope = TRUE]))

\* the body of `with app:` is left, normally (e = NoExc) or by exception e
ExitScope(e) ==
  /\ stack = <<>>
  /\ scope
  /\ Commit(Settle(ExitW(Begin("exit", 0), e)))

\* the innermost read loop reads a burst and calls _handle(key)
Burst(k) ==
  /\ stack # <<>>
  /\ LET f == Top(WorldOf)
         bound == bindings[f.rec][k]
     IN Commit(Settle(SetTop(WorldOf,
          [f EXCEPT !.phase = "loop", !.key = k, !.handling = TRUE,
                    !.bound = bound, !.todo = bound \o <<TailStep>>,
                    !.called = <<>>, !.rescued = FALSE])))

\* select() returns nothing within the timeout: record() returns
Timeout ==
  /\ stack # <<>>
  /\ Top(WorldOf).phase = "select"
  /\ Top(WorldOf).timeout
  /\ Commit(Settle(ReturnW(WorldOf)))

\* BaseMenu.start(): display(cleanup=False), then the recorder's start()
MenuStart ==
  /\ stack = <<>>
  /\ LET w == DisplayW(Begin("start", AppRecorder), FALSE) IN
     Commit(Settle(IF w.exc # NoExc THEN w ELSE StartW(w, AppRecorder, FALSE)))

\* menu.add_menu(menu) by the top-level caller
AddMenu(m) ==
  /\ stack = <<>>
  /\ Commit(Settle(AddMenuW(Begin("add_menu", 0), m, 0)))

(***************************************************************************)
(* apps.FuzzyFinder in its read loop: the recorder calls what __init__     *)
(* bound to the key and then the hook, handle_key                          *)
(***************************************************************************)
MaxReceived == 2      \* calls of the receiver

\* the program state with the finder in it
FinderWorld(w) == [ff |-> ff] @@ w

FinderCommit(w, last) ==
  /\ Assign(w)
  /\ ff' = w.ff
  /\ ff_last' = last
  /\ UNCHANGED <<stdin, bindings, func, config, safe_exceptions, cursorVars, lineVars,
                 ma, tr>>

\* the burst handled last and the finder before it
Handled(key) == [op |-> "burst", key |-> key, before |-> ff, was_raw |-> ~normal[AppRecorder]]

\* FuzzyFinder.__init__: recorder.bind(...)
FinderBindings(key, objects) ==
  CASE key \in {"CTRL_C", CTRL_D} -> <<Fn("finder_exit")>>
    [] key = "D_ARROW" -> <<[fn |-> "next_item", arg |-> 1]>>
    [] key = "U_ARROW" -> <<[fn |-> "previous_item", arg |-> 1]>>
    [] key = "PG_UP" -> <<[fn |-> "previous_item", arg |-> Len(objects)]>>
    [] key = "PG_DOWN" -> <<[fn |-> "next_item", arg |-> Len(objects)]>>
    [] key = "ENTER" -> <<Fn("send")>>
    [] OTHER -> <<>>

\* a bound action or the hook of the finder's recorder, called for a burst
FinderExec(w, c, key) ==
  CASE c.fn = "send" -> SendW(w)
    [] c.fn = "finder_exit" -> FinderExitW(w)
    [] c.fn = "next_item" -> [w EXCEPT !.ff = NextItem(@, c.arg)]
    [] c.fn = "previous_item" -> [w EXCEPT !.ff = PreviousItem(@, c.arg)]
    [] c.fn = "handle_key" -> [w EXCEPT !.ff = HandleKey(@, key, w.in_app)]
    [] OTHER -> w

\* _handle(key): `for f in self.bindings.get(key, []): f()`, until one raises
RECURSIVE FinderCalls(_, _, _)
FinderCalls(w, todo, key) ==
  IF todo = <<>> \/ w.exc # NoExc THEN w
  ELSE FinderCalls(FinderExec(w, Head(todo), key), Tail(todo), key)

\* _handle(key) in the finder's read loop: the bound actions, then
\* `if key == '\x04'` end() and sys.exit(1), else the hook
FinderHandleW(w, key) ==
  LET f == Top(w)
      bound == bindings[f.rec][key]
      w1 == FinderCalls(SetTop(w, [f EXCEPT !.phase = "loop", !.key = key,
                                            !.bound = bound, !.called = bound]),
                        bound, key)
  IN IF w1.exc # NoExc THEN w1
     ELSE IF key = CTRL_D
       THEN LET w2 == EndW(w1, f.rec) IN
            IF w2.exc # NoExc THEN w2 ELSE Raise(w2, SysExit)
     ELSE FinderExec(w1, func[f.rec], key)

RunKeys == {"p", "l", "BACKSPACE", "D_ARROW", "U_ARROW", "PG_DOWN", "ENTER", "CTRL_C", CTRL_D}

\* `with finder:` is entered
FinderOpen ==
  /\ stack = <<>>
  /\ ~scope
  /\ FinderCommit(Settle([OpenW(FinderWorld(Begin("enter", 0))) EXCEPT !.scope = TRUE]),
                  NoMove)

\* the body of `with finder:` is left
FinderLeave ==
  /\ stack = <<>>
  /\ scope
  /\ FinderCommit(Settle(ExitW(FinderWorld(Begin("exit", 0)), NoExc)), NoMove)

\* finder.start()
FinderStart ==
  /\ stack = <<>>
  /\ Len(ff.received) < MaxReceived
  /\ FinderCommit(Settle(FinderStartW(FinderWorld(Begin("start", AppRecorder)))), NoMove)

\* the finder's read loop reads a burst and calls _handle(key); when that
\* is over the loop goes on, or record() returns or raises into start()
FinderBurst(k) ==
  /\ stack # <<>>
  /\ LET after == Settle(FinderHandleW(FinderWorld(WorldOf), k))
     IN /\ Len(after.ff.line_buffer.line) <= MaxTyped
        /\ FinderCommit(after, Handled(k))

NextSend ==
  \/ FinderOpen
  \/ FinderLeave
  \/ FinderStart
  \/ \E k \in RunKeys : FinderBurst(k)

BodyExceptions == {NoExc, Interrupt, SysExit, UserError, Conflict}
MaxChars == {0, 1}
Bindable == {Fn("f"), Fn("g"), Fn("end")}
AppBindable == {Fn("exit")}

\* the recorders, used directly
NextRec ==
  \/ \E r \in Recorders, t \in BOOLEAN : Start(r, t)
  \/ \E r \in Recorders : NewSettings(r)
  \/ \E r \in Recorders : End(r)
  \/ \E r \in Recorders, t \in BOOLEAN : Record(r, t)
  \/ \E r \in Recorders, m \in MaxChars : Input(r, m)
  \/ \E k \in Keys : Burst(k)
  \/ Timeout
  \/ Close

\* an application and its recorder
NextApp ==
  \/ \E k \in Keys, c \in AppBindable : Bind(AppRecorder, k, c)
  \/ \E t \in BOOLEAN : Start(AppRecorder, t)
  \/ \E t \in BOOLEAN : Record(AppRecorder, t)
  \/ End(AppRecorder)
  \/ \E k \in Keys : Burst(k)
  \/ Timeout
  \/ Open
  \/ Close
  \/ Write
  \/ Flush
  \/ EnterScope
  \/ \E e \in BodyExceptions : ExitScope(e)

\* one recorder, its bindings and its read loop
NextDispatch ==
  \/ \E k \in Keys, c \in Bindable : Bind(AppRecorder, k, c)
  \/ \E t \in BOOLEAN : Start(AppRecorder, t)
  \/ \E t \in BOOLEAN : Record(AppRecorder, t)
  \/ End(AppRecorder)
  \/ \E k \in Keys : Burst(k)
  \/ Timeout

\* open() and close() alone
NextTerm == Open \/ Close

MenuKeys == {"R_ARROW", "L_ARROW", "U_ARROW", "D_ARROW", "ENTER", "ESC", "CTRL_X"}
DemoKeys == {"R_ARROW", "D_ARROW", "ENTER", "ESC", "CTRL_X"}

\* a menu application: `with menu:` or not, add_menu, start() and the keys
NextMenu ==
  \/ EnterScope
  \/ ExitScope(NoExc)
  \/ \E m \in MenuIds : AddMenu(m)
  \/ MenuStart
  \/ \E k \in MenuKeys : Burst(k)

\* the two-level menu, started once in `with menu:`
NextMenuDemo ==
  \/ EnterScope
  \/ ExitScope(NoExc)
  \/ scope /\ mn.log = <<>> /\ MenuStart
  \/ \E k \in DemoKeys : Burst(k)

NextFinder ==
  \/ EnterScope
  \/ \E n \in FinderSteps : FinderNextItem(n)
  \/ \E n \in FinderSteps : FinderPreviousItem(n)
  \/ \E key \in FinderKeys : FinderKey(key)

(***************************************************************************)
(* utils.trim                                                              *)
(***************************************************************************)
MaxString == 5        \* characters in a string trimmed
MaxPrecision == 6     \* the largest precision passed

\* string[lo:hi] of Python: a negative index counts from the end, and both
\* are clamped to the string
PyIndex(str, i) ==
  LET j == IF i < 0 THEN i + Len(str) ELSE i IN
  IF j < 0 THEN 0 ELSE IF j > Len(str) THEN Len(str) ELSE j
PySlice(str, lo, hi) == SubSeq(str, PyIndex(str, lo) + 1, PyIndex(str, hi))

Ellipsis == <<".", ".", ".">>

\* trim(string, precision, rstart)
Trim(string, precision, rstart) ==
  IF 3 <= precision /\ precision <= Len(string)
    THEN PySlice(string, 0, precision - rstart - 3) \o Ellipsis
         \o PySlice(string, Len(string) - rstart, Len(string))
    ELSE string

TrimChars == {"a", "."}
NotTrimmed == [done |-> FALSE, text |-> <<>>]

\* trim is called
TrimCall ==
  /\ ~tr.out.done
  /\ tr' = [tr EXCEPT !.out = [done |-> TRUE,
                               text |-> Trim(tr.string, tr.precision, tr.rstart)]]
  /\ UNCHANGED <<cursorVars, recVars, appVars, histVars, lineVars, mn, ma, finderVars>>

NextTrim == TrimCall

TrimIdle == tr = [string |-> <<>>, precision |-> 0, rstart |-> 0, out |-> NotTrimmed]

TrimInit ==
  \E string \in Strings(TrimChars, MaxString), precision \in 0..MaxPrecision,
     rstart \in {0, 1} :
    tr = [string |-> string, precision |-> precision, rstart |-> rstart,
          out |-> NotTrimmed]

(***************************************************************************)
(* termutils.LineBuffer: one burst on a buffer in any state of its text,   *)
(* its cursor and its prompt                                               *)
(***************************************************************************)
Prompts == {<<>>, <<">">>, <<">", " ">>}
LineChars == {"a", " "}

\* a LineBuffer with the prompt set, the text typed and the cursor moved to
\* offset i of the text
LineBufferAt(prompt, line, i) ==
  [LineBufferNew(prompt) EXCEPT !.line = line, !.pos = Len(prompt) + i]

BurstKeys ==
  {"a", " ", ".", "TAB", "ENTER", "ESC", "BACKSPACE", "DEL", "L_ARROW", "R_ARROW",
   "HOME", "END", "CTRL_LARROW", "CTRL_RARROW", "U_ARROW", "D_ARROW"}

\* what key() hands to insert(): the burst, a tab expanded to spaces
BurstText(char) == IF char = "TAB" THEN [i \in 1..TabSize |-> " "] ELSE <<char>>

\* key(char), once; the history also keeps the cursor it found
KeyOnce(char) ==
  /\ lb_last = NoKey
  /\ lb' = LineKey(lb, char)
  /\ lb_last' = [key |-> char, shown |-> lb.line, pos |-> lb.pos,
                 ret |-> lb'.ret, exc |-> lb'.exc]
  /\ UNCHANGED <<lb_trace, cursorVars, recVars, appVars, histVars, mn, ma, finderVars, tr>>

NextBurst == \E k \in BurstKeys : KeyOnce(k)

BurstInit ==
  /\ \E prompt \in Prompts, line \in Strings(LineChars, MaxLine) :
       \E i \in 0..Len(line) : lb = LineBufferAt(prompt, line, i)
  /\ lb_last = NoKey
  /\ lb_trace = <<>>

(***************************************************************************)
(* termutils.LineBuffer: a walk through the history, k times up and then   *)
(* k times down, from a live line (history_pos = 0) and any history        *)
(***************************************************************************)
MaxWalk == 3          \* the most steps a walk goes up

RECURSIVE Lists(_, _)
Lists(items, n) ==
  IF n = 0 THEN {<<>>}
  ELSE Lists(items, n - 1)
       \cup {Append(list, x) : list \in {y \in Lists(items, n - 1) : Len(y) = n - 1},
                               x \in items}

\* the walk: where it started, how far it is to go, the steps made
WalkFrom(b, k) ==
  [key |-> "walk", shown |-> b.line, history |-> b.local_history, k |-> k,
   ups |-> 0, downs |-> 0, ret |-> NoReturn, exc |-> NoExc]

\* history_up() is called
WalkUp ==
  /\ lb_last.key = "walk" /\ lb.exc = NoExc
  /\ lb_last.ups < lb_last.k /\ lb_last.downs = 0
  /\ lb' = HistoryUp(lb)
  /\ lb_last' = [lb_last EXCEPT !.ups = @ + 1, !.exc = lb'.exc]
  /\ UNCHANGED <<lb_trace, cursorVars, recVars, appVars, histVars, mn, ma, finderVars, tr>>

\* history_down() is called
WalkDown ==
  /\ lb_last.key = "walk" /\ lb.exc = NoExc
  /\ lb_last.ups = lb_last.k /\ lb_last.downs < lb_last.k
  /\ lb' = HistoryDown(lb)
  /\ lb_last' = [lb_last EXCEPT !.downs = @ + 1, !.exc = lb'.exc]
  /\ UNCHANGED <<lb_trace, cursorVars, recVars, appVars, histVars, mn, ma, finderVars, tr>>

NextWalk == WalkUp \/ WalkDown

\* a buffer after some lines were sent, with a live line typed
WalkInit ==
  /\ \E line \in Strings(LineChars, MaxLine),
        history \in Lists(Strings(LineChars, MaxLine), MaxHistory) :
       lb = [LineBufferAt(<<>>, line, Len(line)) EXCEPT !.local_history = history]
  /\ \E k \in 1..MaxWalk : lb_last = WalkFrom(lb, k)
  /\ lb_trace = <<>>

(***************************************************************************)
(* termutils.LineBuffer: every operation of an editor in use: key bursts,  *)
(* prompt assignment, set_placeholder, history_up / history_down           *)
(***************************************************************************)
MaxEdit == 4          \* characters in the edited line (a tab fits)
MaxSent == 2          \* entries in the editor's _local_history

Placeholders == {<<>>, <<"a">>, <<" ", "a">>}

\* a prompt setter that leaves the cursor where it was
SetPrompt_KeepsCursor(b, prompt) ==
  [b EXCEPT !.prompt = prompt]

\* buffer.prompt = prompt
SetPrompt(b, prompt) ==
  [b EXCEPT !.pos = Len(prompt) + TruePos(b), !.prompt = prompt]

\* set_placeholder(placeholder)
SetPlaceholder(b, placeholder) ==
  IF b.line = <<>>
    THEN [b EXCEPT !.line = placeholder, !.pos = Len(b.prompt) + Len(placeholder)]
    ELSE b

\* the editor after an operation: the result of key() and what was raised
\* are the caller's, the buffer keeps neither
Edited(b) ==
  /\ Len(b.line) <= MaxEdit
  /\ Len(b.local_history) <= MaxSent
  /\ \A i \in 1..Len(b.local_history) : Len(b.local_history[i]) <= MaxLine
  /\ lb' = [b EXCEPT !.ret = NoReturn, !.exc = NoExc]
  /\ UNCHANGED <<lb_last, lb_trace, cursorVars, recVars, appVars, histVars, mn, ma,
                 finderVars, tr>>

EditKey(char) == Edited(LineKey(lb, char))
EditPrompt(prompt) == Edited(SetPrompt(lb, prompt))
EditPlaceholder(placeholder) == Edited(SetPlaceholder(lb, placeholder))
EditHistoryUp == Edited(HistoryUp(lb))
EditHistoryDown == Edited(HistoryDown(lb))

NextEdit ==
  \/ \E k \in BurstKeys : EditKey(k)
  \/ \E prompt \in Prompts : EditPrompt(prompt)
  \/ \E placeholder \in Placeholders : EditPlaceholder(placeholder)
  \/ EditHistoryUp
  \/ EditHistoryDown

(***************************************************************************)
(* Initial states                                                          *)
(***************************************************************************)
WidgetIdle == LineIdle /\ MenuIdle /\ MatchIdle /\ FinderIdle /\ TrimIdle

HistIdle ==
  /\ pending = NoCall
  /\ outcome = NoExc
  /\ start_log = NoStart
  /\ done_burst = NoBurst
  /\ exit_log = NoExit
  /\ io_log = ""
  /\ input_log = NoInput
  /\ life = "new"

\* TermInReader.__init__ of every recorder, before any bind()
RecInit ==
  /\ normal = [r \in Recorders |-> TRUE]
  /\ old_settings = [r \in Recorders |-> None]
  /\ bindings = [r \in Recorders |-> [k \in Keys |-> <<>>]]
  /\ stack = <<>>

\* XTermApplication.__init__
AppInit ==
  /\ in_app = FALSE
  /\ sink = [writes |-> 0, flushes |-> 0]
  /\ scope = FALSE

DefaultSafe == {"KeyboardInterrupt", "SystemExit"}
SafeChoices == {DefaultSafe, {}, {"Exception"}}

\* the hooks the recorders are constructed with: every recorder with a hook
\* that touches nothing, or the first recorder with a hook that does more
HookPrograms ==
  {[r \in Recorders |-> IF r = 1 THEN c ELSE Fn("f")] :
     c \in {Fn("f"), [fn |-> "start", arg |-> 2], [fn |-> "raise", arg |-> 1],
            [fn |-> "raise", arg |-> 2]}}

Init ==
  /\ CursorIdle
  /\ stdin \in {"tty", "pipe", "closed"}
  /\ tty \in OrigTtys
  /\ RecInit
  /\ func \in HookPrograms
  /\ AppInit
  /\ config = DefaultConfig
  /\ safe_exceptions = DefaultSafe
  /\ term = TermAllOff
  /\ HistIdle
  /\ WidgetIdle

Spec == Init /\ [][NextRec]_vars

\* an application whose hook renders (write and flush)
InitApp ==
  /\ CursorIdle
  /\ stdin = "tty"
  /\ tty = Cooked
  /\ RecInit
  /\ func = [r \in Recorders |-> Fn("write")]
  /\ AppInit
  /\ config = DefaultConfig
  /\ safe_exceptions \in SafeChoices
  /\ term = TermAllOff
  /\ HistIdle
  /\ WidgetIdle

SpecApp == InitApp /\ [][NextApp]_vars

\* one recorder on a terminal, with a hook that touches nothing
InitDispatch ==
  /\ CursorIdle
  /\ stdin = "tty"
  /\ tty = Cooked
  /\ RecInit
  /\ func = [r \in Recorders |-> Fn("f")]
  /\ AppInit
  /\ config = DefaultConfig
  /\ safe_exceptions = DefaultSafe
  /\ term = TermAllOff
  /\ HistIdle
  /\ WidgetIdle

SpecDispatch == InitDispatch /\ [][NextDispatch]_vars

\* every configuration, on a terminal that an earlier program left in disorder
InitTerm ==
  /\ CursorIdle
  /\ stdin = "tty"
  /\ tty = Cooked
  /\ RecInit
  /\ func = [r \in Recorders |-> Fn("f")]
  /\ AppInit
  /\ config \in Configs
  /\ safe_exceptions = DefaultSafe
  /\ term = TermLeftOver
  /\ HistIdle
  /\ WidgetIdle

SpecTerm == InitTerm /\ [][NextTerm]_vars

InitCursor ==
  /\ CursorInit
  /\ stdin = "tty"
  /\ tty = Cooked
  /\ RecInit
  /\ func = [r \in Recorders |-> Fn("f")]
  /\ AppInit
  /\ config = DefaultConfig
  /\ safe_exceptions = DefaultSafe
  /\ term = TermAllOff
  /\ HistIdle
  /\ WidgetIdle

SpecCursor == InitCursor /\ [][NextCursor]_vars

\* the program around a widget that is checked on its own
ProgramIdle ==
  /\ CursorIdle
  /\ stdin = "tty"
  /\ tty = Cooked
  /\ RecInit
  /\ func = [r \in Recorders |-> Fn("f")]
  /\ AppInit
  /\ config = DefaultConfig
  /\ safe_exceptions = DefaultSafe
  /\ term = TermAllOff
  /\ HistIdle

InitLine == ProgramIdle /\ LineInit /\ MenuIdle /\ MatchIdle /\ FinderIdle /\ TrimIdle

SpecLine == InitLine /\ [][NextLine]_vars

SpecHello == InitLine /\ [][NextHello]_vars

InitBurst ==
  ProgramIdle /\ BurstInit /\ MenuIdle /\ MatchIdle /\ FinderIdle /\ TrimIdle

SpecBurst == InitBurst /\ [][NextBurst]_vars

InitWalk ==
  ProgramIdle /\ WalkInit /\ MenuIdle /\ MatchIdle /\ FinderIdle /\ TrimIdle

SpecWalk == InitWalk /\ [][NextWalk]_vars

\* LineBuffer(): InitLine is the state after construction
SpecEdit == InitLine /\ [][NextEdit]_vars

\* BaseMenu.__init__: hide_cursor, the hook simple_nav, exit bound to CTRL_X
\* (and CTRL_C)
MenuProgram ==
  /\ CursorIdle
  /\ stdin = "tty"
  /\ tty = Cooked
  /\ normal = [r \in Recorders |-> TRUE]
  /\ old_settings = [r \in Recorders |-> None]
  /\ bindings = [r \in Recorders |->
                   [k \in MenuKeys |-> IF r = AppRecorder /\ k = "CTRL_X"
                                         THEN <<Fn("menu_exit")>> ELSE <<>>]]
  /\ stack = <<>>
  /\ func = [r \in Recorders |-> IF r = AppRecorder THEN Fn("simple_nav") ELSE Fn("f")]
  /\ AppInit
  /\ config = [DefaultConfig EXCEPT !.hide_cursor = TRUE]
  /\ safe_exceptions = DefaultSafe
  /\ term = TermAllOff
  /\ HistIdle
  /\ LineIdle
  /\ MatchIdle
  /\ FinderIdle
  /\ TrimIdle

InitMenu ==
  /\ MenuProgram
  /\ \E initial_menus \in {<<Root>>, <<Sub>>, <<Root, Sub>>} :
       mn = MenuNew(initial_menus, FALSE)

SpecMenu == InitMenu /\ [][NextMenu]_vars

InitMenuDemo == MenuProgram /\ mn = MenuNew(<<Root>>, TRUE)

SpecMenuDemo == InitMenuDemo /\ [][NextMenuDemo]_vars

\* FuzzyFinder.__init__: the configuration of the application
InitFinder ==
  /\ CursorIdle
  /\ stdin = "tty"
  /\ tty = Cooked
  /\ RecInit
  /\ func = [r \in Recorders |-> Fn("f")]
  /\ AppInit
  /\ config = [DefaultConfig EXCEPT !.alternate_buffer = TRUE, !.alternate_scroll = TRUE,
                                    !.auto_wrap = FALSE, !.mouse_events = TRUE]
  /\ safe_exceptions = DefaultSafe
  /\ term = TermAllOff
  /\ HistIdle
  /\ LineIdle
  /\ MenuIdle
  /\ MatchIdle
  /\ FinderInit
  /\ TrimIdle

SpecFinder == InitFinder /\ [][NextFinder]_vars

\* FuzzyFinder(Fruits) and FuzzyFinder(Fruits, receiver) on a terminal of 4
\* lines: the bindings and the hook of its recorder
InitSend ==
  /\ CursorIdle
  /\ stdin = "tty"
  /\ tty = Cooked
  /\ normal = [r \in Recorders |-> TRUE]
  /\ old_settings = [r \in Recorders |-> None]
  /\ bindings = [r \in Recorders |->
                   [k \in RunKeys |-> IF r = AppRecorder THEN FinderBindings(k, Fruits)
                                      ELSE <<>>]]
  /\ stack = <<>>
  /\ func = [r \in Recorders |-> IF r = AppRecorder THEN Fn("handle_key") ELSE Fn("f")]
  /\ AppInit
  /\ config = [DefaultConfig EXCEPT !.alternate_buffer = TRUE, !.alternate_scroll = TRUE,
                                    !.auto_wrap = FALSE, !.mouse_events = TRUE]
  /\ safe_exceptions = DefaultSafe
  /\ term = TermAllOff
  /\ HistIdle
  /\ LineIdle
  /\ MenuIdle
  /\ MatchIdle
  /\ \E receiver \in BOOLEAN : ff = [FinderNew(Fruits, 4) EXCEPT !.receiver = receiver]
  /\ ff_last = NoMove
  /\ TrimIdle

SpecSend == InitSend /\ [][NextSend]_vars

InitMatch == ProgramIdle /\ LineIdle /\ MenuIdle /\ MatchInit /\ FinderIdle /\ TrimIdle

InitTrim == ProgramIdle /\ LineIdle /\ MenuIdle /\ MatchIdle /\ FinderIdle /\ TrimInit

SpecTrim == InitTrim /\ [][NextTrim]_vars

SpecMatch == InitMatch /\ [][NextMatch]_vars

(***************************************************************************)
(* The claims                                                              *)
(***************************************************************************)

\* C1: for every configuration, open() followed by close() leaves autowrap on,
\* the cursor visible, the mouse modes 1003, 1005, 1006 and 1015 off, DECCKM
\* off, and every other mode that open() set for the configuration switched
\* back: alternate buffer and alternate scroll off, the scrolling region
\* reset, smooth scroll back on, fast scroll, meta key and alt numlock off.
C1_OpenCloseRestoresBaseline ==
  life = "open-close" =>
    /\ term.dec[7] /\ term.dec[25]
    /\ \A m \in {1003, 1005, 1006, 1015} : ~term.dec[m]
    /\ ~term.dec[1]
    /\ config.alternate_buffer => ~term.dec[1049]
    /\ config.alternate_scroll => ~term.dec[1007]
    /\ config.scrolling_region # NoRegion => term.region = FullScreen
    /\ ~config.smooth_scroll => term.dec[4]
    /\ config.fast_scroll => ~term.dec[1014]
    /\ config.meta_key => ~term.dec[1034]
    /\ config.alt_numlock => ~term.dec[1035]

\* open() then close() of an application with every option away from its default
C1_Witness ==
  /\ life = "open-close"
  /\ config.alternate_buffer /\ config.alternate_scroll /\ config.hide_cursor
  /\ config.scrolling_region # NoRegion /\ config.meta_key /\ config.alt_numlock
  /\ ~config.smooth_scroll /\ config.fast_scroll /\ ~config.auto_wrap
  /\ config.sgr_mouse /\ config.utf8_mouse /\ config.urxvt_mouse
  /\ config.mouse_events

\* C2: after any sequence of recorder operations on the live recorders, at
\* most one recorder is in raw mode (normal = False).
C2_AtMostOneRaw ==
  Cardinality({r \in Recorders : ~normal[r]}) <= 1

\* C3: a start() on a recorder while another recorder is in raw mode raises the
\* conflict error and changes nothing: the other recorder stays in raw mode
\* with its saved settings, the tty keeps its settings, and the recorder that
\* was started stays as it was (cooked).
C3_SecondStartRaisesConflict ==
  (start_log.rec # 0 /\ start_log.raw_others # {}) =>
    /\ start_log.result = Conflict
    /\ start_log.unchanged
    /\ (done_burst = NoBurst /\ stack = <<>>) =>
         /\ \A a \in start_log.raw_others : ~normal[a]
         /\ start_log.was_normal => normal[start_log.rec]

\* the first recorder is in raw mode, start() on the second, so far cooked,
\* was called by the top-level caller and raised the conflict error
C3_Witness ==
  /\ start_log.rec = 2 /\ start_log.raw_others = {1} /\ start_log.was_normal
  /\ start_log.result = Conflict
  /\ done_burst = NoBurst /\ stack = <<>>
  /\ ~normal[1] /\ IsRawMode(tty) /\ old_settings[1] # None /\ normal[2]

\* C4: leaving the application scope runs close() first, after which
\* in_context is false and the recorder is cooked; the exception that left
\* the scope is swallowed if and only if it is of a class in safe_exceptions,
\* and any other exception goes on to the caller.
C4_ScopeExitClosesAndFilters ==
  exit_log.called =>
    /\ ~in_app
    /\ normal[AppRecorder]
    /\ exit_log.propagated =
         IF exit_log.raised = NoExc \/ IsSubclass(exit_log.raised, safe_exceptions)
           THEN NoExc ELSE exit_log.raised

\* C5: in_context is true exactly between open() and the next close(), and
\* write()/flush() reach the sink only then: in every other state they leave
\* the sink alone.
C5_ContextGuardsSink ==
  /\ in_app <=> life = "open"
  /\ io_log = "forwarded" => life = "open"

\* C6: for every burst the recorder handles (CTRL_D with bindings included;
\* the rescue of an unbound CTRL_D aside), and no bound action raising, the
\* actions bound to the burst are called in the order they were bound and
\* then the active hook, once.
C6_BindingsThenHook ==
  (/\ done_burst.rec # 0
   /\ ~done_burst.raised
   /\ ~(done_burst.key = CTRL_D /\ done_burst.bound = <<>>)) =>
    done_burst.called = done_burst.bound \o <<done_burst.hook>>

\* C7: when the read loop that a top-level start() runs handles CTRL_D: with
\* no binding for it, the recorder ends and the exit with code 1 leaves
\* start() (the process terminates); with a binding, the rescue does not fire.
C7_RescueOnlyUnbound ==
  (/\ done_burst.rec # 0 /\ done_burst.key = CTRL_D /\ ~done_burst.raised
   /\ done_burst.via = "start" /\ done_burst.depth = 1
   /\ stack = <<>> /\ pending = NoCall) =>
    /\ done_burst.bound = <<>> => (normal[done_burst.rec] /\ outcome = SysExit)
    /\ done_burst.bound # <<>> => ~done_burst.rescued

\* C11: the ENTER that ends any sequence of keys on a LineBuffer with
\* send_on_enter returns the text shown at that moment, resets the cursor to
\* the prompt end and leaves that text as the last history entry, and the
\* history holds no two equal adjacent entries.
C11_EnterCommits ==
  (lb_last.key \in EnterCodes /\ lb_last.exc = NoExc) =>
    /\ lb_last.ret = Returned(lb_last.shown)
    /\ lb.pos = Len(lb.prompt)
    /\ lb.local_history # <<>>
    /\ lb.local_history[Len(lb.local_history)] = lb_last.shown
    /\ \A i \in 1..(Len(lb.local_history) - 1) :
         lb.local_history[i] # lb.local_history[i + 1]

HelloKeys == Hello \o <<"CTRL_LARROW", "BACKSPACE">>

\* C12 (amended): from an empty LineBuffer with prompt "> ", the keys h, e, l,
\* l, o, CTRL_LARROW, BACKSPACE leave the text "hello" (there is nothing to the
\* left of the cursor for BACKSPACE to delete) with the cursor at the prompt
\* end, and a following ENTER returns "hello".
C12_BackspaceAtStartKeepsHello ==
  /\ lb_trace = HelloKeys => (lb.line = Hello /\ lb.pos = Len(lb.prompt))
  /\ lb_trace = HelloKeys \o <<"ENTER">> => lb_last.ret = Returned(Hello)

\* the whole key sequence was typed and ENTER returned hello
C12_Witness ==
  /\ lb_trace = HelloKeys \o <<"ENTER">>
  /\ lb.prompt = <<">", " ">>
  /\ lb_last.ret = Returned(Hello)
  /\ lb.line = <<>>

\* C12 as stated: the same keys leave the text "ello" with the cursor at the
\* prompt end, and the following ENTER returns "ello".
C12_AsStated ==
  /\ lb_trace = HelloKeys => (lb.line = Tail(Hello) /\ lb.pos = Len(lb.prompt))
  /\ lb_trace = HelloKeys \o <<"ENTER">> => lb_last.ret = Returned(Tail(Hello))

DemoSequence == <<"R_ARROW", "ENTER", "D_ARROW", "ENTER", "ESC", "ENTER", "CTRL_X">>
LoggedKeys == [i \in 1..Len(mn.log) |-> mn.log[i].key]
LoggedEffects == [i \in 1..Len(mn.log) |-> mn.log[i].did]
OnDemoSequence ==
  /\ mn.log # <<>>
  /\ Len(mn.log) <= Len(DemoSequence)
  /\ LoggedKeys = SubSeq(DemoSequence, 1, Len(mn.log))

\* C13 (amended): for the root horizontal menu [("A", fn_a), ("B", a callable
\* that pushes the submenu)] and the vertical submenu [("X", 1), ("Y", 2)]
\* with selector receive, started in the application context, the keys
\* R_ARROW, ENTER, D_ARROW, ENTER, ESC, ENTER, CTRL_X produce in order: the
\* submenu pushed on the first ENTER, receive(2) on the second, the stack
\* popped to the root on ESC, the submenu pushed again on the third ENTER (the
\* root pointer is still on B; fn_a is not invoked), and the application
\* closed (recorder cooked, out of context) on CTRL_X.
C13_TwoLevelMenu ==
  OnDemoSequence =>
    /\ LoggedEffects =
         SubSeq(<<Did("show", 1), Did("push", Sub), Did("show", 1), Did("receive", 2),
                  Did("pop", 0), Did("push", Sub), Did("show", 0)>>, 1, Len(mn.log))
    /\ Len(mn.log) \in {2, 3, 4} => mn.menus = <<Root, Sub>>
    /\ Len(mn.log) = 5 => mn.menus = <<Root>> /\ mn.pointer[Root] = 1
    /\ Len(mn.log) = 6 => mn.menus = <<Root, Sub>>
    /\ (Len(mn.log) = 7 /\ done_burst.key = "CTRL_X") =>
         (~in_app /\ normal[AppRecorder] /\ stack = <<>> /\ outcome = NoExc)

\* the seven keys were handled and CTRL_X closed the application
C13_Witness ==
  /\ LoggedKeys = DemoSequence
  /\ done_burst.key = "CTRL_X"
  /\ done_burst.called = <<Fn("menu_exit"), Fn("simple_nav")>>
  /\ ~in_app /\ normal[AppRecorder] /\ stack = <<>>

\* C13 as stated: the same keys produce the submenu pushed on the first ENTER,
\* receive(2) on the second, the stack popped on ESC, fn_a invoked on the
\* third ENTER, and the application closed on CTRL_X.
C13_AsStated ==
  OnDemoSequence =>
    /\ Len(mn.log) >= 2 => mn.log[2].did = Did("push", Sub)
    /\ Len(mn.log) >= 4 => mn.log[4].did = Did("receive", 2)
    /\ Len(mn.log) >= 5 => mn.log[5].did = Did("pop", 0)
    /\ Len(mn.log) >= 6 => mn.log[6].did = Did("fn_a", 0)
    /\ (Len(mn.log) = 7 /\ done_burst.key = "CTRL_X") =>
         (~in_app /\ normal[AppRecorder] /\ stack = <<>>)

\* C14: while a Menu started with at least one menu is running, the stack of
\* menus is never empty; ESC removes exactly the top menu when the depth is
\* more than 1, and at depth 1 leaves the stack and every pointer unchanged.
C14_EscPopsAboveRoot ==
  /\ stack # <<>> => mn.menus # <<>>
  /\ mn.last.key = "ESC" =>
       IF Len(mn.last.menus) > 1
         THEN mn.menus = SubSeq(mn.last.menus, 1, Len(mn.last.menus) - 1)
         ELSE mn.menus = mn.last.menus /\ mn.pointer = mn.last.pointer

\* C15: fuzzy matching is monotone: for every search, the candidates that
\* match the query with one character added are among those that match the
\* query (the empty query matches every candidate).
C15_MatchMonotone ==
  ma.out.done =>
    /\ Range(ma.out.longer_sublist) \subseteq Range(ma.out.sublist)
    /\ ma.query = <<>> => ma.out.sublist = ma.objects

\* a search whose longer query drops a candidate that the query matches
C15_Witness ==
  /\ ma.out.done
  /\ ma.query # <<>>
  /\ ma.out.longer_sublist # <<>>
  /\ Len(ma.out.longer_sublist) < Len(ma.out.sublist)

\* the characters of the query that the item has in the query's own case,
\* at the positions matched
ExactCase(query, item, indices) ==
  Cardinality({k \in 1..Len(indices) : item[indices[k] + 1] = query[k]})

\* x scores strictly higher than y
ScoresHigher(x, y) == x.raw * y.upto > y.raw * x.upto

\* C16: filtering ignores case but scoring does not: two candidates that are
\* equal after case folding both match a query or both do not, at the same
\* positions, and the one with the query's exact case at more of the matched
\* positions scores strictly higher (query "Ap": Apple above apple).
C16_CaseCountsInScore ==
  ma.out.done =>
    \A which \in {"query", "longer"} :
      LET q == IF which = "query" THEN ma.query ELSE ma.longer
          found == IF which = "query" THEN ma.out.matches ELSE ma.out.longer_matches
          x == ma.objects[1]
          y == ma.objects[2]
      IN Fold(x) = Fold(y) =>
           /\ found[1].found = found[2].found
           /\ found[1].indices = found[2].indices
           /\ (found[1].found /\ ExactCase(q, x, found[1].indices)
                                  > ExactCase(q, y, found[2].indices))
                => ScoresHigher(found[1], found[2])

\* query "Ap" on apple and Apple: both match, Apple scores 1 and apple 0.75
C16_Witness ==
  /\ ma.out.done
  /\ ma.objects = <<Apple, CapitalApple>> /\ ma.longer = <<"A", "p">>
  /\ ma.out.longer_matches[1] = [found |-> TRUE, indices |-> <<0, 1>>, raw |-> 30, upto |-> 2]
  /\ ma.out.longer_matches[2] = [found |-> TRUE, indices |-> <<0, 1>>, raw |-> 40, upto |-> 2]
  /\ ma.out.longer_sublist = <<CapitalApple, Apple>>

\* C17: with the candidates apple, maple, plum, pineapple and the query "pl"
\* all four match, and the sublist shown, by descending score, is plum, apple,
\* maple, pineapple; the key that changes the query puts the pointer on the
\* first.
C17_FruitsByScore ==
  (ff.objects = Fruits /\ ff.current_query = <<"p", "l">>) =>
    /\ ff.sublist = <<Plum, Apple, Maple, Pineapple>>
    /\ ff_last.key \in FinderChars => ff.pointer = 0 /\ ff.start_index = 0
    /\ LET score == [i \in 1..Len(ff.sublist) |->
                       MatchesQuery(ff.current_query, ff.sublist[i])]
       IN /\ ScoresHigher(score[1], score[2])
          /\ ScoresAtLeast(score[2], score[3]) /\ ScoresAtLeast(score[3], score[2])
          /\ ScoresHigher(score[3], score[4])

\* "l" typed after "p" on the four fruits, in the application context
C17_Witness ==
  /\ ff.objects = Fruits /\ ff.current_query = <<"p", "l">>
  /\ ff_last.op = "key" /\ ff_last.key = "l"
  /\ in_app
  /\ Len(ff.sublist) = Len(Fruits)

\* the pointer is in the window that starts at start_index
Visible(f, start_index) ==
  start_index <= f.pointer /\ f.pointer < start_index + f.maxlines

\* C18: after any sequence of next_item(n), previous_item(n) (n >= 0) and
\* query changes on a finder with _maxlines >= 1, the pointer is in the window
\* [start_index, start_index + maxlines) and 0 <= start_index <=
\* max(0, len(sublist) - maxlines); a move leaves start_index alone if the
\* pointer is still in the window and else moves it just far enough; on 50
\* items with 10 lines next_item(15) from 0 gives pointer 15, start_index 6,
\* and previous_item(20) then gives 0 and 0.
C18_PointerInWindow ==
  ff.maxlines >= 1 =>
    /\ Visible(ff, ff.start_index)
    /\ 0 <= ff.start_index
    /\ ff.start_index <= Max(0, Len(ff.sublist) - ff.maxlines)
    /\ ff_last.op \in {"next_item", "previous_item"} =>
         ff.start_index =
           IF Visible(ff, ff_last.start_index) THEN ff_last.start_index
           ELSE IF ff.pointer < ff_last.start_index THEN ff.pointer
           ELSE ff.pointer - ff.maxlines + 1
    /\ (ff.objects = Fifty /\ ff.maxlines = 10 /\ Len(ff.sublist) = Len(Fifty)) =>
         /\ (ff_last = [op |-> "next_item", n |-> 15, key |-> "", pointer |-> 0,
                        start_index |-> 0])
              => ff.pointer = 15 /\ ff.start_index = 6
         /\ (ff_last = [op |-> "previous_item", n |-> 20, key |-> "", pointer |-> 15,
                        start_index |-> 6])
              => ff.pointer = 0 /\ ff.start_index = 0

\* previous_item(20) on the 50 items, from pointer 15 and start_index 6
C18_Witness ==
  /\ ff.objects = Fifty /\ ff.maxlines = 10 /\ Len(ff.sublist) = Len(Fifty)
  /\ ff_last = [op |-> "previous_item", n |-> 20, key |-> "", pointer |-> 15,
                start_index |-> 6]
  /\ ff.pointer = 0 /\ ff.start_index = 0

\* C19: for every string s and width w >= 3, trim(s, w) is no longer than w,
\* is s whenever len(s) <= w (len(s) = w included), and otherwise is the
\* first w - 3 characters of s followed by "...".
C19_TrimOnlyWhenLonger ==
  (tr.out.done /\ tr.precision >= 3 /\ tr.rstart = 0) =>
    /\ Len(tr.out.text) <= tr.precision
    /\ IF Len(tr.string) <= tr.precision
         THEN tr.out.text = tr.string
         ELSE tr.out.text = Take(tr.string, tr.precision - 3) \o Ellipsis

\* C20: start followed by end is a round trip on the tty: for a recorder that
\* is the only one ever to have entered raw mode, the settings saved are those
\* the tty had before (the original ones, not the raw ones), and once it has
\* ended the tty has them again, also after repeated cycles.
C20_EndRestoresOriginal ==
  \A r \in Recorders :
    (\A other \in Recorders \ {r} : old_settings[other] = None) =>
      /\ old_settings[r] # None => old_settings[r] \in OrigTtys
      /\ normal[r] => tty \in OrigTtys

\* C21: whenever start(), called on a cooked recorder, has returned or raised,
\* that recorder is cooked: after end() from a handler, a timeout, a swallowed
\* KeyboardInterrupt or SystemExit, a handler exception that propagates, and
\* when raw mode cannot be entered (stdin closed, stdin a pipe).
C21_StartLeavesCooked ==
  (start_log.rec # 0 /\ start_log.was_normal /\ stack = <<>> /\ pending = NoCall)
    => normal[start_log.rec]

\* the last key was a burst that key() inserted
Inserting == lb_last.key \in {"a", " ", "TAB"}

\* C22: when a burst c is inserted with the cursor at offset i of the text
\* (cursor = len(prompt) + i), whatever the prompt, the new text is
\* text[:i] + c + text[i:] and the cursor has moved by exactly 1.
C22_InsertAtCursor ==
  Inserting =>
    LET i == lb_last.pos - Len(lb.prompt) IN
    /\ lb.line = Take(lb_last.shown, i) \o BurstText(lb_last.key) \o Drop(lb_last.shown, i)
    /\ lb.pos = lb_last.pos + 1

\* the burst was put into the text, at some place
InsertedSomewhere ==
  \E i \in 0..Len(lb_last.shown) :
    lb.line = Take(lb_last.shown, i) \o BurstText(lb_last.key) \o Drop(lb_last.shown, i)

\* bursts of whitespace other than ENTER, and single characters from 0x20 on
Acceptable == {"TAB"} \cup Printable

\* C23: key(burst) inserts the burst into the text if and only if it is
\* whitespace other than ENTER or a single character with code >= 0x20: every
\* other burst inserts nothing, and every such burst, '.' too, is inserted and
\* not taken for an edit command.
C23_InsertIffAcceptable ==
  lb_last.key # "" => (InsertedSomewhere <=> lb_last.key \in Acceptable)

\* C24: a walk through the history is a round trip: from a live line
\* (history_pos = 0) and any history, the empty one too, k times history_up
\* and then k times history_down, k >= 1, raise no error and end with the
\* live text, history_pos = 0 and the history as it was.
C24_HistoryRoundTrip ==
  lb_last.key = "walk" =>
    /\ lb.exc = NoExc
    /\ (lb_last.ups = lb_last.k /\ lb_last.downs = lb_last.k) =>
         /\ lb.line = lb_last.shown
         /\ lb.history_pos = 0
         /\ lb.local_history = lb_last.history

\* C25: in a running FuzzyFinder, ENTER on a non-empty sublist ends the
\* recorder (the read loop stops after the burst), sets value to the string
\* at the pointer and calls the receiver exactly once with that string; ENTER
\* on an empty sublist changes nothing and the loop keeps running; CTRL_C or
\* CTRL_D ends the application with value = None.
C25_EnterSendsExitAborts ==
  ff_last.op = "burst" =>
    LET before == ff_last.before IN
    /\ (ff_last.key = "ENTER" /\ before.sublist # <<>>) =>
          LET s == before.sublist[before.pointer + 1] IN
          /\ normal[AppRecorder] /\ stack = <<>>
          /\ ff.value = Value(s)
          /\ before.receiver => ff.received = Append(before.received, s)
          /\ ff = [before EXCEPT !.value = ff.value, !.received = ff.received]
    /\ (ff_last.key = "ENTER" /\ before.sublist = <<>>) =>
          /\ ff = before
          /\ ~normal[AppRecorder] /\ stack # <<>>
    /\ ff_last.key \in {"CTRL_C", CTRL_D} =>
          /\ ~in_app /\ normal[AppRecorder] /\ stack = <<>>
          /\ ff.value = NoValue

\* a receiver got a string that was searched for and moved to, after an
\* earlier send
C25_Witness ==
  /\ ff_last.op = "burst" /\ ff_last.key = "ENTER"
  /\ ff_last.before.current_query # <<>> /\ ff_last.before.pointer > 0
  /\ Len(ff.received) = 2

\* C26: input(prompt, max_chars) on a recorder in raw mode leaves raw mode
\* exactly when max_chars is None: with None the recorder is cooked when the
\* line is read, with max_chars given the recorder is still raw while the
\* characters are read.
C26_InputLeavesRawIffNone ==
  (input_log.rec # 0 /\ ~input_log.was_normal) =>
    (normal[input_log.rec] <=> input_log.max_chars = 0)

\* C27: after any sequence of LineBuffer operations (key bursts of every
\* kind, prompt assignment, set_placeholder, history_up / history_down, ENTER
\* commits) the cursor is inside the editable text:
\* len(prompt) <= cursor_pos <= len(prompt) + len(text).
C27_CursorInsideText ==
  /\ Len(lb.prompt) <= lb.pos
  /\ lb.pos <= Len(lb.prompt) + Len(lb.line)

\* a prompt was assigned while the cursor stood inside a text, and a line was
\* sent before
C27_Witness ==
  /\ lb.prompt # <<>>
  /\ 0 < TruePos(lb) /\ TruePos(lb) < Len(lb.line)
  /\ lb.local_history # <<>>

\* C8: on a non-empty list of length n, from a pointer p in [0, n) and for any
\* delta k >= 0, advance(k) leaves the pointer at (p+k) mod n if cyclic and at
\* min(p+k, n-1) otherwise; retreat(k) leaves it at (p-k) mod n if cyclic and at
\* max(p-k, 0) otherwise.
C8_AdvanceRetreatModular ==
  (sp_len > 0 /\ sp_last.from \in 0..(sp_len - 1)) =>
    /\ sp_last.op = "next" =>
         sp_pointer = IF sp_cycle THEN (sp_last.from + sp_last.n) % sp_len
                                  ELSE Min(sp_last.from + sp_last.n, sp_len - 1)
    /\ sp_last.op = "previous" =>
         sp_pointer = IF sp_cycle THEN (sp_last.from - sp_last.n) % sp_len
                                  ELSE Max(sp_last.from - sp_last.n, 0)

\* C9: on a non-empty list the pointer is in [0, len) after any sequence of
\* advance, retreat and pointer assignments, and assigning a value above len-1
\* sets the pointer to len-1.
C9_PointerInRange ==
  sp_len > 0 =>
    /\ 0 <= sp_pointer /\ sp_pointer < sp_len
    /\ (sp_last.op = "set" /\ sp_last.n > sp_len - 1) => sp_pointer = sp_len - 1

\* C10: on an empty list the pointer is 0 and stays 0 after any sequence of
\* advance, retreat and pointer assignments.
C10_EmptyPointerZero ==
  sp_len = 0 => sp_pointer = 0

====
